---- MODULE Spec2Model ----
(***************************************************************************)
(* Proposal pricing and draft synchronisation of the InspectAI             *)
(* application: proposalDraft.js (normalisation, totals, merge, the        *)
(* local-storage slot) and the inspection form of App.jsx (equipment       *)
(* counts, derived quantities, the storage listener, history snapshots).   *)
(* Further parts: the proposal preview window and the storage events       *)
(* between the windows, page reload and the server's history, the Generate *)
(* button, and on the server the report retention cleanup,                 *)
(* runWithConcurrency and withRetry.                                       *)
(*                                                                         *)
(* JavaScript values are tagged records [t, n, s]:                         *)
(*   t = "undef" | "null" | "num" | "big" | "inf" | "nan" | "str"          *)
(* A finite number is held in quarter units (n = 4 * value), so that 13.5  *)
(* and the product of two halves are exact.  "big" stands for a finite     *)
(* double of magnitude 1e308 (n is its sign), "inf" for +/-Infinity (n is  *)
(* its sign).  A property that is absent from an object reads as           *)
(* undefined, so an absent key and a key holding undefined are the same    *)
(* value here.                                                             *)
(***************************************************************************)
EXTENDS Integers, Sequences, FiniteSets, TLC

VARIABLES
    \* ---- pure-function harness (proposalDraft.js called on an input) ----
    fnPc,        \* which function has been applied to fnArg
    fnArg,       \* the argument: a draft object or a non-object value
    fnInc,       \* mergeDraft's second argument / readDraft's stored text
    fnDraft,     \* a returned draft (applyDefaults, mergeDraft, readDraft)
    fnDraft2,    \* applyDefaults applied to fnDraft
    fnList,      \* a returned list (normalizeAdditionalItems, normalizeRepairs)
    fnTotals,    \* computeTotals' result
    \* ---- inspection form (App.jsx) ----
    hoods, fans, filters,
    cleaningFrequency,
    baseRate,
    additionalItems,
    repairs,
    stdFilterQty,
    filterExchangeQty,
    pricingTouched,
    history,
    stored,      \* the localStorage slot DRAFT_KEY
    effPending,  \* the equipment effect's dependencies changed in the last render
    wrPending,   \* the write-draft effect's dependencies changed in the last render
    lastOp,      \* the handler that ran last
    \* ---- proposal preview window (ProposalPreview.jsx) and the store ----
    pvOpen,      \* the preview window is open
    pvDraft,     \* its state draft
    pvEditDraft, \* its state editDraft
    pvIsEditing, \* its state isEditing
    pvInbox,     \* storage events dispatched to the preview, not yet handled
    formInbox,   \* storage events dispatched to the form, not yet handled
    storeFull,   \* localStorage.setItem throws (quota exceeded, storage disabled)
    pvSeen,      \* number of storage events the preview has handled, modulo 2
    formSeen,    \* number of storage events the form has handled, modulo 2
    pvSteps,     \* number of things the user did with the preview and the store
    \* ---- report server (server/index.js) and page reload ----
    serverUp,      \* the server saves reports and returns a reportId
    serverReports, \* the reports the server holds, newest first
    fetchPending,  \* the fetch of /api/reports made on mount has not resolved
    genLog,        \* what each generation recorded, by entry id
    \* ---- the Generate button of the form (App.jsx handleGenerate) ----
    restaurantName, \* the Restaurant Name input
    notes,          \* the Notes input
    photos,         \* number of photos attached
    isGenerating,   \* the state isGenerating
    apiError,       \* the state apiError
    requests,       \* POST /api/generate requests awaiting their response
    \* ---- report retention (deleteReportsOlderThan at server startup) ----
    expired,     \* number of stored reports with createdAt before the cutoff
    recent,      \* number of stored reports created since the cutoff
    cleanup,     \* "notRun", "done" (the cleanup returned) or "failed" (it threw)
    deleted,     \* the count the cleanup returned
    \* ---- runWithConcurrency (server/index.js) ----
    poolItems,   \* the argument items: the uploaded files
    poolLimit,   \* the argument limit
    nextIndex,   \* the local nextIndex
    runners,     \* per runner: the index whose worker call it awaits, -1 when it broke out
    poolResults, \* the local results: per index the value stored, Empty before
    workerCalls, \* per index, how many times worker was invoked for it
    poolState,   \* "idle", "running" or "resolved"
    finished,    \* the indexes whose worker call has finished, in order of finishing
    \* ---- withRetry (server/index.js) ----
    maxAttempts, \* the option maxAttempts
    attempt,     \* the loop variable attempt
    fnCalls,     \* how many times fn was called
    retryState,  \* "idle", "calling", "waiting", "returned" or "threw"
    lastErr,     \* the error of the last failed call
    delays       \* the waits made so far, in ms

fnVars == <<fnPc, fnArg, fnInc, fnDraft, fnDraft2, fnList, fnTotals>>
formVars == <<hoods, fans, filters, cleaningFrequency, baseRate, additionalItems,
              repairs, stdFilterQty, filterExchangeQty, pricingTouched, history,
              stored, effPending, wrPending, lastOp>>
previewVars == <<pvOpen, pvDraft, pvEditDraft, pvIsEditing, pvInbox, formInbox,
                 storeFull, pvSeen, formSeen, pvSteps>>
serverVars == <<serverUp, serverReports, fetchPending, genLog>>
requestVars == <<restaurantName, notes, photos, isGenerating, apiError, requests>>
retentionVars == <<expired, recent, cleanup, deleted>>
poolVars == <<poolItems, poolLimit, nextIndex, runners, poolResults, workerCalls,
              poolState, finished>>
retryVars == <<maxAttempts, attempt, fnCalls, retryState, lastErr, delays>>
jobVars == <<requestVars, retentionVars, poolVars, retryVars>>
vars == <<fnVars, formVars, previewVars, serverVars, jobVars>>

-----------------------------------------------------------------------------
(* JavaScript values *)

Undef == [t |-> "undef", n |-> 0, s |-> ""]
Null == [t |-> "null", n |-> 0, s |-> ""]
NaN == [t |-> "nan", n |-> 0, s |-> ""]
Num(q) == [t |-> "num", n |-> q, s |-> ""]
Whole(k) == Num(4 * k)
Halves(k) == Num(2 * k)
Big(sign) == [t |-> "big", n |-> sign, s |-> ""]
Inf(sign) == [t |-> "inf", n |-> sign, s |-> ""]
Str(x) == [t |-> "str", n |-> 0, s |-> x]
Bool(b) == [t |-> "bool", n |-> IF b THEN 1 ELSE 0, s |-> ""]

Abs(i) == IF i < 0 THEN -i ELSE i
Sign(i) == IF i < 0 THEN -1 ELSE IF i > 0 THEN 1 ELSE 0

IsNullish(v) == v.t \in {"undef", "null"}

\* Number.isFinite
IsFinite(x) == x.t \in {"num", "big"}

\* Number(v) of a string: leading and trailing blanks are dropped, the empty
\* string is 0, a decimal literal is its value, anything else is NaN.
ParseNumber(x) ==
    CASE x \in {"", " "} -> Whole(0)
      [] x = "0" -> Whole(0)
      [] x = "1" -> Whole(1)
      [] x = "2" -> Whole(2)
      [] x = "3" -> Whole(3)
      [] x = "4" -> Whole(4)
      [] x = " 3 " -> Whole(3)
      [] x = "5" -> Whole(5)
      [] x = "-5" -> Whole(-5)
      [] x = "13.5" -> Halves(27)
      [] x = "723" -> Whole(723)
      [] x = "1e308" -> Big(1)
      [] OTHER -> NaN

\* Number(v)
ToNumber(v) ==
    CASE v.t = "undef" -> NaN
      [] v.t = "null" -> Whole(0)
      [] v.t = "str" -> ParseNumber(v.s)
      [] OTHER -> v

\* x + y on numbers (IEEE doubles; 1e308 + 1e308 overflows, 1e308 absorbs
\* any small addend)
Add(x, y) ==
    CASE x.t = "nan" \/ y.t = "nan" -> NaN
      [] x.t = "inf" /\ y.t = "inf" -> IF x.n = y.n THEN x ELSE NaN
      [] x.t = "inf" -> x
      [] y.t = "inf" -> y
      [] x.t = "big" /\ y.t = "big" -> IF x.n = y.n THEN Inf(x.n) ELSE Whole(0)
      [] x.t = "big" -> x
      [] y.t = "big" -> y
      [] OTHER -> Num(x.n + y.n)

\* x * y on numbers (1e308 times anything of magnitude above 1 overflows)
Mul(x, y) ==
    CASE x.t = "nan" \/ y.t = "nan" -> NaN
      [] x.t = "num" /\ y.t = "num" -> Num((x.n * y.n) \div 4)
      [] (x.t = "num" /\ x.n = 0) \/ (y.t = "num" /\ y.n = 0) ->
            IF x.t = "inf" \/ y.t = "inf" THEN NaN ELSE Whole(0)
      [] x.t = "inf" \/ y.t = "inf" -> Inf(Sign(x.n) * Sign(y.n))
      [] x.t = "big" /\ y.t = "big" -> Inf(x.n * y.n)
      [] x.t = "big" -> IF Abs(y.n) > 4 THEN Inf(x.n * Sign(y.n)) ELSE Big(x.n * Sign(y.n))
      [] OTHER -> IF Abs(x.n) > 4 THEN Inf(y.n * Sign(x.n)) ELSE Big(y.n * Sign(x.n))

\* x < y on numbers
Less(x, y) ==
    CASE x.t = "nan" \/ y.t = "nan" -> FALSE
      [] x.t = "num" /\ y.t = "num" -> x.n < y.n
      [] x.t = "num" -> y.n > 0
      [] y.t = "num" -> x.n < 0
      [] x.t = y.t -> x.n < y.n
      [] x.t = "inf" -> x.n < 0
      [] OTHER -> y.n > 0

\* Math.max(x, y)
MathMax(x, y) ==
    IF x.t = "nan" \/ y.t = "nan" THEN NaN ELSE IF Less(x, y) THEN y ELSE x

\* JavaScript truthiness (the operand of ||, !, ?:)
Truthy(v) ==
    CASE v.t \in {"undef", "null", "nan"} -> FALSE
      [] v.t = "num" -> v.n # 0
      [] v.t = "str" -> v.s # ""
      [] v.t = "bool" -> v.n = 1
      [] OTHER -> TRUE

\* a || b and a ?? b
OrElse(a, b) == IF Truthy(a) THEN a ELSE b
Coalesce(a, b) == IF IsNullish(a) THEN b ELSE a

Digit(d) ==
    CASE d = 0 -> "0" [] d = 1 -> "1" [] d = 2 -> "2" [] d = 3 -> "3" [] d = 4 -> "4"
      [] d = 5 -> "5" [] d = 6 -> "6" [] d = 7 -> "7" [] d = 8 -> "8" [] OTHER -> "9"

RECURSIVE NatStr(_)
NatStr(k) == IF k < 10 THEN Digit(k) ELSE NatStr(k \div 10) \o Digit(k % 10)

\* String(x) of a finite number held in quarter units
NumStr(q) ==
    (IF q < 0 THEN "-" ELSE "") \o NatStr(Abs(q) \div 4) \o
    (CASE Abs(q) % 4 = 0 -> "" [] Abs(q) % 4 = 1 -> ".25"
       [] Abs(q) % 4 = 2 -> ".5" [] OTHER -> ".75")

\* String(v), as a string value
ToStr(v) ==
    CASE v.t = "str" -> v
      [] v.t = "undef" -> Str("undefined")
      [] v.t = "null" -> Str("null")
      [] v.t = "nan" -> Str("NaN")
      [] v.t = "num" -> Str(NumStr(v.n))
      [] v.t = "big" -> Str(IF v.n < 0 THEN "-1e+308" ELSE "1e+308")
      [] OTHER -> Str(IF v.n < 0 THEN "-Infinity" ELSE "Infinity")

\* String.prototype.trim on the strings of the model
Trim(x) ==
    CASE x = " " -> ""
      [] x = " 3 " -> "3"
      [] x = " Monthly " -> "Monthly"
      [] x = " additional hood " -> "additional hood"
      [] OTHER -> x

\* String.prototype.toLowerCase on the strings of the model
ToLowerCase(x) ==
    CASE x = "Additional Hood" -> "additional hood"
      [] x = "Additional Fan" -> "additional fan"
      [] x = "ADDITIONAL FAN" -> "additional fan"
      [] x = "Monthly" -> "monthly"
      [] x = "Quarterly" -> "quarterly"
      [] x = "Grease Trap" -> "grease trap"
      [] OTHER -> x

-----------------------------------------------------------------------------
(* Drafts.  A draft is a record with t = "obj"; its two list properties hold  *)
(* [t, a]: t = "arr" with the elements in a, or "undef" / "null".  A list    *)
(* element is an object (t = "obj") or null (every property read through ?. *)
(* is then undefined).                                                       *)

NoList == [t |-> "undef", a |-> <<>>]
NullList == [t |-> "null", a |-> <<>>]
List(seq) == [t |-> "arr", a |-> seq]
IsArray(x) == x.t = "arr"

Item(description, qty, rate, frequency) ==
    [t |-> "obj", description |-> description, qty |-> qty, rate |-> rate,
     frequency |-> frequency]
NullItem == [t |-> "null", description |-> Undef, qty |-> Undef, rate |-> Undef,
             frequency |-> Undef]
Repair(description, amount) ==
    [t |-> "obj", description |-> description, amount |-> amount]
NullRepair == [t |-> "null", description |-> Undef, amount |-> Undef]

ScalarKeys ==
    {"cleaningFrequency", "filters", "baseRate",
     "additionalHoodRate", "additionalFanRate", "stdFilterRate", "nonStdFilterRate",
     "fuelSurcharge", "stdFilterQty", "nonStdFilterQty", "initialHoodQty",
     "initialFanQty", "filterExchangeQty", "additionalHoodQty", "additionalFanQty",
     "additionalFrequency", "repairDescription", "repairRate", "fuelFrequency"}
ListKeys == {"additionalItems", "repairs"}
DraftKeys == ScalarKeys \cup ListKeys

\* the object {}
EmptyDraft ==
    [k \in DraftKeys \cup {"t"} |->
        IF k = "t" THEN "obj" ELSE IF k \in ListKeys THEN NoList ELSE Undef]

IsObject(x) == x.t = "obj"

\* DEFAULT_RATES
DefaultBaseRate == Whole(723)
DefaultAdditionalHoodRate == Whole(203)
DefaultAdditionalFanRate == Whole(203)
DefaultStdFilterRate == Whole(8)
DefaultNonStdFilterRate == Halves(27)
DefaultFuelSurcharge == Whole(46)

DEFAULT_RATES ==
    [EmptyDraft EXCEPT !.baseRate = DefaultBaseRate,
                       !.additionalHoodRate = DefaultAdditionalHoodRate,
                       !.additionalFanRate = DefaultAdditionalFanRate,
                       !.stdFilterRate = DefaultStdFilterRate,
                       !.nonStdFilterRate = DefaultNonStdFilterRate,
                       !.fuelSurcharge = DefaultFuelSurcharge]

\* safeNum without the finiteness test
safeNumUnchecked(v) == ToNumber(v)

safeNum(v) == LET x == ToNumber(v) IN IF IsFinite(x) THEN x ELSE Whole(0)

orDefault(val, def) == LET x == ToNumber(val) IN IF IsFinite(x) THEN x ELSE def

TrimStr(v) == Str(Trim(v.s))

\* normalizeAdditionalItems trying the legacy flat fields before the array
normalizeAdditionalItemsLegacyFirst(draft) ==
    LET defaultFreq == OrElse(draft.cleaningFrequency, Str(""))
        legacyFreq == OrElse(draft.additionalFrequency,
                             OrElse(draft.cleaningFrequency, defaultFreq))
        canon(a) ==
            Item(ToStr(Coalesce(a.description, Str(""))),
                 safeNum(a.qty),
                 orDefault(a.rate, DefaultAdditionalHoodRate),
                 OrElse(TrimStr(ToStr(Coalesce(a.frequency, defaultFreq))), defaultFreq))
        hood == IF ~IsNullish(draft.additionalHoodQty) \/ ~IsNullish(draft.additionalHoodRate)
                THEN <<Item(Str("Additional Hood"), safeNum(draft.additionalHoodQty),
                            orDefault(draft.additionalHoodRate, DefaultAdditionalHoodRate),
                            legacyFreq)>>
                ELSE <<>>
        fan == IF ~IsNullish(draft.additionalFanQty) \/ ~IsNullish(draft.additionalFanRate)
               THEN <<Item(Str("Additional Fan"), safeNum(draft.additionalFanQty),
                           orDefault(draft.additionalFanRate, DefaultAdditionalFanRate),
                           legacyFreq)>>
               ELSE <<>>
        items == hood \o fan
    IN  IF Len(items) > 0 THEN items
        ELSE IF IsArray(draft.additionalItems) /\ Len(draft.additionalItems.a) > 0
        THEN [i \in 1..Len(draft.additionalItems.a) |-> canon(draft.additionalItems.a[i])]
        ELSE <<Item(Str("Additional Hood"), Whole(0), DefaultAdditionalHoodRate, defaultFreq)>>

normalizeAdditionalItems(draft) ==
    LET defaultFreq == OrElse(draft.cleaningFrequency, Str(""))
        legacyFreq == OrElse(draft.additionalFrequency,
                             OrElse(draft.cleaningFrequency, defaultFreq))
        canon(a) ==
            Item(ToStr(Coalesce(a.description, Str(""))),
                 safeNum(a.qty),
                 orDefault(a.rate, DefaultAdditionalHoodRate),
                 OrElse(TrimStr(ToStr(Coalesce(a.frequency, defaultFreq))), defaultFreq))
        hood == IF ~IsNullish(draft.additionalHoodQty) \/ ~IsNullish(draft.additionalHoodRate)
                THEN <<Item(Str("Additional Hood"), safeNum(draft.additionalHoodQty),
                            orDefault(draft.additionalHoodRate, DefaultAdditionalHoodRate),
                            legacyFreq)>>
                ELSE <<>>
        fan == IF ~IsNullish(draft.additionalFanQty) \/ ~IsNullish(draft.additionalFanRate)
               THEN <<Item(Str("Additional Fan"), safeNum(draft.additionalFanQty),
                           orDefault(draft.additionalFanRate, DefaultAdditionalFanRate),
                           legacyFreq)>>
               ELSE <<>>
        items == hood \o fan
    IN  IF IsArray(draft.additionalItems) /\ Len(draft.additionalItems.a) > 0
        THEN [i \in 1..Len(draft.additionalItems.a) |-> canon(draft.additionalItems.a[i])]
        ELSE IF Len(items) > 0 THEN items
        ELSE <<Item(Str("Additional Hood"), Whole(0), DefaultAdditionalHoodRate, defaultFreq)>>

normalizeRepairs(draft) ==
    IF IsArray(draft.repairs) /\ Len(draft.repairs.a) > 0
    THEN [i \in 1..Len(draft.repairs.a) |->
            Repair(ToStr(Coalesce(draft.repairs.a[i].description, Str(""))),
                   safeNum(draft.repairs.a[i].amount))]
    ELSE IF ~IsNullish(draft.repairDescription) \/ ~IsNullish(draft.repairRate)
    THEN <<Repair(ToStr(Coalesce(draft.repairDescription, Str(""))),
                  safeNum(draft.repairRate))>>
    ELSE <<Repair(Str(""), Whole(0))>>

\* d.x == null || d.x === ""
Unset(v) == IsNullish(v) \/ v = Str("")

\* applyDefaults normalizing the additional items before it fills the rates
applyDefaultsItemsFirst(draft) ==
    IF ~IsObject(draft) THEN DEFAULT_RATES
    ELSE
      LET d0 == [draft EXCEPT !.additionalItems = List(normalizeAdditionalItems(draft))]
          d1 == [d0 EXCEPT
                   !.baseRate = IF Unset(@) THEN DefaultBaseRate ELSE @,
                   !.additionalHoodRate = IF Unset(@) THEN DefaultAdditionalHoodRate ELSE @,
                   !.additionalFanRate = IF Unset(@) THEN DefaultAdditionalFanRate ELSE @,
                   !.stdFilterRate = IF Unset(@) THEN DefaultStdFilterRate ELSE @,
                   !.nonStdFilterRate = IF Unset(@) THEN DefaultNonStdFilterRate ELSE @,
                   !.fuelSurcharge = IF Unset(@) THEN DefaultFuelSurcharge ELSE @]
          d2 == [d1 EXCEPT !.repairs = List(normalizeRepairs(d1))]
      IN  [d2 EXCEPT
             !.initialHoodQty =
                 IF IsNullish(@) \/ Less(ToNumber(@), Whole(1)) THEN Whole(1) ELSE @,
             !.initialFanQty =
                 IF IsNullish(@) \/ Less(ToNumber(@), Whole(1)) THEN Whole(1) ELSE @]

applyDefaults(draft) ==
    IF ~IsObject(draft) THEN DEFAULT_RATES
    ELSE
      LET d1 == [draft EXCEPT
                   !.baseRate = IF Unset(@) THEN DefaultBaseRate ELSE @,
                   !.additionalHoodRate = IF Unset(@) THEN DefaultAdditionalHoodRate ELSE @,
                   !.additionalFanRate = IF Unset(@) THEN DefaultAdditionalFanRate ELSE @,
                   !.stdFilterRate = IF Unset(@) THEN DefaultStdFilterRate ELSE @,
                   !.nonStdFilterRate = IF Unset(@) THEN DefaultNonStdFilterRate ELSE @,
                   !.fuelSurcharge = IF Unset(@) THEN DefaultFuelSurcharge ELSE @]
          d2 == [d1 EXCEPT !.repairs = List(normalizeRepairs(d1))]
          d3 == [d2 EXCEPT !.additionalItems = List(normalizeAdditionalItems(d2))]
      IN  [d3 EXCEPT
             !.initialHoodQty =
                 IF IsNullish(@) \/ Less(ToNumber(@), Whole(1)) THEN Whole(1) ELSE @,
             !.initialFanQty =
                 IF IsNullish(@) \/ Less(ToNumber(@), Whole(1)) THEN Whole(1) ELSE @]

\* mergeDraft skipping null as well as undefined (v != null)
mergeDraftSkipNull(prev, incoming) ==
    LET out == IF IsObject(prev) THEN prev ELSE EmptyDraft
    IN  IF ~IsObject(incoming) THEN out
        ELSE [k \in DOMAIN out |->
                IF k = "t" THEN "obj"
                ELSE IF ~IsNullish(incoming[k]) THEN incoming[k] ELSE out[k]]

mergeDraft(prev, incoming) ==
    LET out == IF IsObject(prev) THEN prev ELSE EmptyDraft
    IN  IF ~IsObject(incoming) THEN out
        ELSE [k \in DOMAIN out |->
                IF k = "t" THEN "obj"
                ELSE IF incoming[k].t # "undef" THEN incoming[k] ELSE out[k]]

\* the property reads of computeTotals on a value that is not null/undefined:
\* a primitive has none of the draft's properties
AsObject(x) == IF IsObject(x) THEN x ELSE EmptyDraft

\* the additional subtotal charging every item the default rate
RECURSIVE SumItemsDefaultRate(_, _)
SumItemsDefaultRate(list, i) ==
    IF i = 0 THEN Whole(0)
    ELSE Add(SumItemsDefaultRate(list, i - 1),
             Mul(safeNum(list[i].qty), DefaultAdditionalHoodRate))

RECURSIVE SumItems(_, _)
SumItems(list, i) ==
    IF i = 0 THEN Whole(0)
    ELSE Add(SumItems(list, i - 1),
             Mul(safeNum(list[i].qty), orDefault(list[i].rate, DefaultAdditionalHoodRate)))

RECURSIVE SumRepairs(_, _)
SumRepairs(list, i) ==
    IF i = 0 THEN Whole(0)
    ELSE Add(SumRepairs(list, i - 1), safeNum(list[i].amount))

\* computeTotals raises a TypeError when it reads a property of null or
\* undefined: draft.additionalItems of a null draft, a.qty of a null element
Threw == [threw |-> TRUE, baseRate |-> Undef, addHood |-> Undef, addFan |-> Undef,
          mainServiceSubtotal |-> Undef, repairsSubtotal |-> Undef,
          filtersSubtotal |-> Undef, fuelSubtotal |-> Undef, totalPerService |-> Undef]

computeTotals(draft) ==
    IF IsNullish(draft) THEN Threw
    ELSE
      LET d == AsObject(draft)
          baseRateC == orDefault(d.baseRate, DefaultBaseRate)
          stdRate == orDefault(d.stdFilterRate, DefaultStdFilterRate)
          nonStdRate == orDefault(d.nonStdFilterRate, DefaultNonStdFilterRate)
          fuelRate == orDefault(d.fuelSurcharge, DefaultFuelSurcharge)
          items == IF IsArray(d.additionalItems) THEN d.additionalItems.a
                   ELSE normalizeAdditionalItems(d)
          additionalSubtotal == SumItems(items, Len(items))
          mainServiceSubtotal == Add(baseRateC, additionalSubtotal)
          reps == IF IsArray(d.repairs) THEN d.repairs.a ELSE normalizeRepairs(d)
          repairsSubtotal == SumRepairs(reps, Len(reps))
          filtersSubtotal == Add(Mul(safeNum(d.stdFilterQty), stdRate),
                                 Mul(safeNum(d.nonStdFilterQty), nonStdRate))
          fuelSubtotal == fuelRate
      IN  IF (\E i \in 1..Len(items) : items[i].t = "null")
             \/ (\E i \in 1..Len(reps) : reps[i].t = "null")
          THEN Threw
          ELSE [threw |-> FALSE,
                baseRate |-> baseRateC,
                addHood |-> additionalSubtotal,
                addFan |-> Whole(0),
                mainServiceSubtotal |-> mainServiceSubtotal,
                repairsSubtotal |-> repairsSubtotal,
                filtersSubtotal |-> filtersSubtotal,
                fuelSubtotal |-> fuelSubtotal,
                totalPerService |->
                    Add(Add(Add(mainServiceSubtotal, repairsSubtotal), filtersSubtotal),
                        fuelSubtotal)]

\* JSON.parse(JSON.stringify(v)): NaN and the infinities are written as null,
\* a property holding undefined is left out
JsonValue(v) == IF v.t \in {"nan", "inf"} THEN Null ELSE v

JsonRoundTrip(draft) ==
    [k \in DOMAIN draft |->
        IF k = "t" THEN "obj"
        ELSE IF k = "additionalItems"
        THEN [draft[k] EXCEPT !.a = [i \in 1..Len(@) |->
                IF @[i].t = "null" THEN NullItem
                ELSE Item(JsonValue(@[i].description), JsonValue(@[i].qty),
                          JsonValue(@[i].rate), JsonValue(@[i].frequency))]]
        ELSE IF k = "repairs"
        THEN [draft[k] EXCEPT !.a = [i \in 1..Len(@) |->
                IF @[i].t = "null" THEN NullRepair
                ELSE Repair(JsonValue(@[i].description), JsonValue(@[i].amount))]]
        ELSE JsonValue(draft[k])]

\* The localStorage slot: [kind, v].  kind = "absent": no item under the key
\* (getItem returns null); "empty": the empty text; "json": text that parses
\* to v (a draft object or another JSON value); "garbage": text that
\* JSON.parse rejects.
Absent == [kind |-> "absent", v |-> Undef]
EmptyText == [kind |-> "empty", v |-> Undef]
Garbage == [kind |-> "garbage", v |-> Undef]
Json(v) == [kind |-> "json", v |-> v]

readDraft(slot) ==
    IF slot.kind = "json" THEN applyDefaults(slot.v)
    ELSE applyDefaults(EmptyDraft)

\* writeDraft with a working store: the text of JSON.stringify(draft || {})
writeDraft(draft) ==
    IF IsObject(draft) THEN Json(JsonRoundTrip(draft))
    ELSE IF Truthy(draft) THEN Json(JsonValue(draft))
    ELSE Json(EmptyDraft)

-----------------------------------------------------------------------------
(* The inputs the functions of proposalDraft.js are applied to *)

MaxItems == 2

\* every sequence over pool of length 1..n
RECURSIVE SeqsUpTo(_, _)
SeqsUpTo(pool, n) ==
    IF n = 0 THEN {}
    ELSE LET shorter == SeqsUpTo(pool, n - 1)
         IN  {<<x>> : x \in pool} \cup shorter \cup
             {Append(q, x) : q \in shorter, x \in pool}

NumVals ==
    {Undef, Null, NaN, Inf(1), Whole(0), Whole(2), Str(""), Str("0"), Str("abc"),
     Big(1), Big(-1)}

ItemPool ==
    {Item(Undef, Whole(2), Whole(203), Undef),
     Item(Str("Additional Hood"), Whole(1), Whole(0), Str("Quarterly")),
     Item(Str("Additional Fan"), Str("2"), Null, Str(" Monthly ")),
     Item(Null, Str("abc"), Str(""), Null),
     Item(Whole(5), NaN, Undef, Str(" ")),
     Item(Str("Grease Trap"), Big(1), Whole(10), Str("")),
     Item(Str("Grease Trap"), Big(-1), Whole(10), Str("")),
     NullItem}

RepairPool ==
    {Repair(Str("Fan belt"), Whole(50)),
     Repair(Undef, Str("abc")),
     Repair(Whole(5), Big(1)),
     Repair(Null, Inf(-1)),
     NullRepair}

ItemLists == {NoList, NullList, List(<<>>)} \cup {List(q) : q \in SeqsUpTo(ItemPool, MaxItems)}
RepairLists ==
    {NoList, NullList, List(<<>>)} \cup {List(q) : q \in SeqsUpTo(RepairPool, MaxItems)}

\* the draft of the totals scenario
ScenarioDraft ==
    [EmptyDraft EXCEPT !.baseRate = Whole(723),
                       !.additionalItems = List(<<Item(Undef, Whole(2), Whole(203), Undef)>>),
                       !.stdFilterQty = Whole(4), !.stdFilterRate = Whole(8),
                       !.nonStdFilterQty = Whole(0), !.nonStdFilterRate = Halves(27),
                       !.fuelSurcharge = Whole(46), !.repairs = List(<<>>)]

\* the draft of the legacy-shape scenario
LegacyDraft ==
    [EmptyDraft EXCEPT !.additionalHoodQty = Whole(1), !.additionalHoodRate = Whole(200),
                       !.additionalFanQty = Whole(0)]

\* rates and quantities at the top level of the draft
RateDrafts ==
    {[EmptyDraft EXCEPT !.baseRate = a, !.stdFilterQty = b, !.stdFilterRate = c] :
        a \in NumVals, b \in NumVals, c \in NumVals}
    \cup
    {[EmptyDraft EXCEPT !.nonStdFilterQty = a, !.nonStdFilterRate = b, !.fuelSurcharge = c] :
        a \in {Undef, Whole(2), Str("abc"), Big(-1)},
        b \in {Undef, Null, Halves(27), Str(""), Whole(10)},
        c \in {Undef, Null, Whole(0), Str("0"), Str(""), NaN}}
    \cup
    {[EmptyDraft EXCEPT !.initialHoodQty = a, !.initialFanQty = b] :
        a \in NumVals \cup {Whole(-1), Whole(3)}, b \in {Undef, Whole(0), Str("2"), Str("abc")}}

\* the array shape of additionalItems, with and without a legacy field
ItemDrafts ==
    {[EmptyDraft EXCEPT !.additionalItems = l, !.cleaningFrequency = f,
                        !.additionalHoodQty = q] :
        l \in ItemLists, f \in {Undef, Str("Monthly"), Str(" Monthly ")},
        q \in {Undef, Whole(1)}}

\* the legacy flat fields
LegacyDrafts ==
    {[EmptyDraft EXCEPT !.additionalHoodQty = hq, !.additionalHoodRate = hr,
                        !.additionalFanQty = fq, !.additionalFanRate = fr,
                        !.additionalFrequency = af, !.additionalItems = l] :
        hq \in {Undef, Null, Whole(0), Whole(1)}, hr \in {Undef, Null, Whole(200), Str("")},
        fq \in {Undef, Null, Whole(0), Str("2")}, fr \in {Undef, Null, Whole(150)},
        af \in {Undef, Str("Quarterly")}, l \in {NoList, List(<<>>)}}

RepairDrafts ==
    {[EmptyDraft EXCEPT !.repairs = l, !.repairDescription = rd, !.repairRate = rr] :
        l \in RepairLists, rd \in {Undef, Null, Str("Belt")},
        rr \in {Undef, Whole(75), Str("abc")}}

\* drafts in the shape of the data model: numbers or absent fields, lists of objects
PlainItems ==
    {Item(Str("Additional Hood"), Whole(2), Whole(203), Str("Monthly")),
     Item(Str("Additional Fan"), Whole(1), Undef, Str("")),
     Item(Str("Grease Trap"), Halves(3), Halves(27), Str(""))}
PlainRepairs == {Repair(Str("Fan belt"), Whole(50)), Repair(Str(""), Halves(25))}

PlainDrafts ==
    {[EmptyDraft EXCEPT !.baseRate = b, !.additionalItems = List(l), !.repairs = List(r),
                        !.stdFilterQty = sq, !.stdFilterRate = Whole(8),
                        !.nonStdFilterQty = Whole(3), !.nonStdFilterRate = nr,
                        !.fuelSurcharge = fs] :
        b \in {Undef, Whole(100)},
        l \in SeqsUpTo(PlainItems, MaxItems),
        r \in {<<>>} \cup SeqsUpTo(PlainRepairs, MaxItems),
        sq \in {Undef, Whole(4)}, nr \in {Undef, Halves(27)}, fs \in {Whole(0), Whole(46)}}

NonObjects == {Null, Undef, Whole(5), Str("abc"), Str("")}

Inputs ==
    RateDrafts \cup ItemDrafts \cup LegacyDrafts \cup RepairDrafts \cup PlainDrafts
    \cup {ScenarioDraft, LegacyDraft} \cup NonObjects

\* second arguments of mergeDraft
Incomings ==
    {EmptyDraft,
     [EmptyDraft EXCEPT !.baseRate = Whole(100)],
     [EmptyDraft EXCEPT !.baseRate = Null, !.stdFilterQty = Str("")],
     [EmptyDraft EXCEPT !.cleaningFrequency = Str("Quarterly"),
                        !.additionalItems = List(<<Item(Str("Additional Hood"), Whole(3),
                                                      Whole(203), Str(""))>>),
                        !.repairs = NullList],
     Null, Undef}

-----------------------------------------------------------------------------
(* The inspection form's state after construction (the useState initial     *)
(* values); the effects of the first render are still to run.               *)

\* no preview window yet, storage accepting writes
PreviewInit ==
    /\ pvOpen = FALSE
    /\ pvDraft = EmptyDraft
    /\ pvEditDraft = EmptyDraft
    /\ pvIsEditing = FALSE
    /\ pvInbox = <<>>
    /\ formInbox = <<>>
    /\ storeFull = FALSE
    /\ pvSeen = 0
    /\ formSeen = 0
    /\ pvSteps = 0

\* no server configured, nothing generated yet
ServerInit ==
    /\ serverUp = FALSE
    /\ serverReports = <<>>
    /\ fetchPending = FALSE
    /\ genLog = <<>>

\* the form as first rendered: nothing typed, no photo, no request made
RequestInit ==
    /\ restaurantName = ""
    /\ notes = ""
    /\ photos = 0
    /\ isGenerating = FALSE
    /\ apiError = ""
    /\ requests = <<>>

\* an empty report store, the server not started
RetentionInit ==
    /\ expired = 0
    /\ recent = 0
    /\ cleanup = "notRun"
    /\ deleted = 0

\* no call of runWithConcurrency made
PoolInit ==
    /\ poolItems = <<>>
    /\ poolLimit = 1
    /\ nextIndex = 0
    /\ runners = <<>>
    /\ poolResults = <<>>
    /\ workerCalls = <<>>
    /\ poolState = "idle"
    /\ finished = <<>>

\* an error as withRetry reads it: err.status ?? err.response.status (0 when
\* absent) and err.code ("" when absent)
Err(status, code) == [status |-> status, code |-> code]

\* no call of withRetry made
RetryInit ==
    /\ maxAttempts = 3
    /\ attempt = 0
    /\ fnCalls = 0
    /\ retryState = "idle"
    /\ lastErr = Err(0, "")
    /\ delays = <<>>

JobInit == RequestInit /\ RetentionInit /\ PoolInit /\ RetryInit

FormInit ==
    /\ hoods = Whole(1)
    /\ fans = Whole(1)
    /\ filters = Whole(0)
    /\ cleaningFrequency = Str("")
    /\ baseRate = Str("723")
    /\ additionalItems =
         <<Item(Str("Additional Hood"), Whole(0), DefaultAdditionalHoodRate, Str("")),
           Item(Str("Additional Fan"), Whole(0), DefaultAdditionalFanRate, Str(""))>>
    /\ repairs = <<Repair(Str(""), Whole(0))>>
    /\ stdFilterQty = Whole(0)
    /\ filterExchangeQty = Whole(0)
    /\ pricingTouched = FALSE
    /\ history = <<>>
    /\ stored = Absent
    /\ effPending = TRUE
    /\ wrPending = TRUE
    /\ lastOp = "mount"

-----------------------------------------------------------------------------
(* proposalDraft.js applied to an input: one call per behaviour *)

NoResult == [threw |-> FALSE, a |-> <<>>]

FnInit ==
    /\ fnPc = "input"
    /\ fnArg \in Inputs
    /\ fnInc = Undef
    /\ fnDraft = EmptyDraft
    /\ fnDraft2 = EmptyDraft
    /\ fnList = NoResult
    /\ fnTotals = Threw

InitFn == FnInit /\ FormInit /\ PreviewInit /\ ServerInit /\ JobInit

\* normalizeAdditionalItems / normalizeRepairs read draft.additionalItems /
\* draft.repairs, a TypeError on null and undefined
ThrewList == [threw |-> TRUE, a |-> <<>>]

Returned(list) == [threw |-> FALSE, a |-> list]

ApplyDefaultsStep ==
    /\ fnPc = "input"
    /\ fnPc' = "applyDefaults"
    /\ fnDraft' = applyDefaults(fnArg)
    /\ UNCHANGED <<fnArg, fnInc, fnDraft2, fnList, fnTotals>>
    /\ UNCHANGED <<formVars, previewVars, serverVars, jobVars>>

ApplyDefaultsAgainStep ==
    /\ fnPc = "applyDefaults"
    /\ fnPc' = "applyDefaults2"
    /\ fnDraft2' = applyDefaults(fnDraft)
    /\ UNCHANGED <<fnArg, fnInc, fnDraft, fnList, fnTotals>>
    /\ UNCHANGED <<formVars, previewVars, serverVars, jobVars>>

NormalizeAdditionalItemsStep ==
    /\ fnPc = "input"
    /\ fnPc' = "normalizeAdditionalItems"
    /\ fnList' = IF IsNullish(fnArg) THEN ThrewList
                ELSE Returned(normalizeAdditionalItems(AsObject(fnArg)))
    /\ UNCHANGED <<fnArg, fnInc, fnDraft, fnDraft2, fnTotals>>
    /\ UNCHANGED <<formVars, previewVars, serverVars, jobVars>>

NormalizeRepairsStep ==
    /\ fnPc = "input"
    /\ fnPc' = "normalizeRepairs"
    /\ fnList' = IF IsNullish(fnArg) THEN ThrewList
                ELSE Returned(normalizeRepairs(AsObject(fnArg)))
    /\ UNCHANGED <<fnArg, fnInc, fnDraft, fnDraft2, fnTotals>>
    /\ UNCHANGED <<formVars, previewVars, serverVars, jobVars>>

ComputeTotalsStep ==
    /\ fnPc = "input"
    /\ fnPc' = "computeTotals"
    /\ fnTotals' = computeTotals(fnArg)
    /\ UNCHANGED <<fnArg, fnInc, fnDraft, fnDraft2, fnList>>
    /\ UNCHANGED <<formVars, previewVars, serverVars, jobVars>>

MergeDraftStep ==
    /\ fnPc = "input"
    /\ \E inc \in Incomings :
         /\ fnInc' = inc
         /\ fnDraft' = mergeDraft(fnArg, inc)
    /\ fnPc' = "mergeDraft"
    /\ UNCHANGED <<fnArg, fnDraft2, fnList, fnTotals>>
    /\ UNCHANGED <<formVars, previewVars, serverVars, jobVars>>

\* readDraft with the slot holding the text of fnArg, no item, the empty
\* text, or text that does not parse
ReadDraftStep ==
    /\ fnPc = "input"
    /\ \E slot \in {Absent, EmptyText, Garbage,
                    Json(IF IsObject(fnArg) THEN JsonRoundTrip(fnArg) ELSE JsonValue(fnArg))} :
         /\ slot.kind = "json" => fnArg # Undef
         /\ fnInc' = slot
         /\ fnDraft' = readDraft(slot)
    /\ fnPc' = "readDraft"
    /\ UNCHANGED <<fnArg, fnDraft2, fnList, fnTotals>>
    /\ UNCHANGED <<formVars, previewVars, serverVars, jobVars>>

\* writeDraft(fnArg) into a working store, then readDraft
WriteReadStep ==
    /\ fnPc = "input"
    /\ fnInc' = writeDraft(fnArg)
    /\ fnDraft' = readDraft(fnInc')
    /\ fnPc' = "writeRead"
    /\ UNCHANGED <<fnArg, fnDraft2, fnList, fnTotals>>
    /\ UNCHANGED <<formVars, previewVars, serverVars, jobVars>>

NextFn ==
    \/ WriteReadStep
    \/ ApplyDefaultsStep
    \/ ApplyDefaultsAgainStep
    \/ NormalizeAdditionalItemsStep
    \/ NormalizeRepairsStep
    \/ ComputeTotalsStep
    \/ MergeDraftStep
    \/ ReadDraftStep

SpecFn == InitFn /\ [][NextFn]_vars

-----------------------------------------------------------------------------
(* The inspection form (App.jsx).  A handler sets state; React then renders  *)
(* and runs, in the order they are declared, the effects whose dependencies *)
(* changed, all before the next event is handled.                           *)

MaxCount == 3
MaxFilters == 1
MaxHistory == 1

\* the key by which the form finds the system-managed items:
\* String(x.description || "").trim().toLowerCase()
NameKey(item) == ToLowerCase(Trim(ToStr(OrElse(item.description, Str(""))).s))

\* items.findIndex(...): the first index whose key is name, 0 when there is none
FindIndex(items, name) ==
    IF \E i \in 1..Len(items) : NameKey(items[i]) = name
    THEN CHOOSE i \in 1..Len(items) :
            /\ NameKey(items[i]) = name
            /\ \A j \in 1..(i - 1) : NameKey(items[j]) # name
    ELSE 0

\* the object literal { additionalItems, cleaningFrequency }
ItemsDraft(items, freq) ==
    [EmptyDraft EXCEPT !.additionalItems = items, !.cleaningFrequency = freq]

\* DeriveItems without the overwrite: the items are only re-normalised
DeriveItemsKeep(prev, freq, h, f) ==
    normalizeAdditionalItems(ItemsDraft(List(prev), freq))

\* DeriveItems with the counts themselves as the additional quantities
DeriveItemsNoOffset(prev, freq, h, f) ==
    LET items == normalizeAdditionalItems(ItemsDraft(List(prev), freq))
        idxHood == FindIndex(items, "additional hood")
        idxFan == FindIndex(items, "additional fan")
    IN  [i \in 1..Len(items) |->
            IF i = idxFan THEN [items[i] EXCEPT !.qty = MathMax(f, Whole(0))]
            ELSE IF i = idxHood THEN [items[i] EXCEPT !.qty = MathMax(h, Whole(0))]
            ELSE items[i]]

\* the updater of the equipment effect: the items re-normalised, with the
\* quantities of "Additional Hood" and "Additional Fan" set from the counts
DeriveItems(prev, freq, h, f) ==
    LET items == normalizeAdditionalItems(ItemsDraft(List(prev), freq))
        wantHood == MathMax(Add(h, Whole(-1)), Whole(0))
        wantFan == MathMax(Add(f, Whole(-1)), Whole(0))
        idxHood == FindIndex(items, "additional hood")
        idxFan == FindIndex(items, "additional fan")
    IN  [i \in 1..Len(items) |->
            IF i = idxFan THEN [items[i] EXCEPT !.qty = wantFan]
            ELSE IF i = idxHood THEN [items[i] EXCEPT !.qty = wantHood]
            ELSE items[i]]

\* num(v) ?? def of buildDraftFromState
NumOr(v, def) == LET x == ToNumber(v) IN IF IsFinite(x) THEN x ELSE def

\* buildDraftFromState over the state of one render
BuildDraft(fil, freq, rate, items, reps, stdQty, exQty) ==
    [EmptyDraft EXCEPT
       !.cleaningFrequency = freq,
       !.initialHoodQty = Whole(1),
       !.initialFanQty = Whole(1),
       !.filters = fil,
       !.baseRate = NumOr(rate, DefaultBaseRate),
       !.additionalItems =
           IF Len(items) > 0
           THEN List([i \in 1..Len(items) |->
                   Item(ToStr(Coalesce(items[i].description, Str(""))),
                        NumOr(items[i].qty, Whole(0)),
                        NumOr(items[i].rate, DefaultAdditionalHoodRate),
                        ToStr(Coalesce(items[i].frequency, Str(""))))])
           ELSE List(<<Item(Str("Additional Hood"), Whole(0), DefaultAdditionalHoodRate, Str("")),
                       Item(Str("Additional Fan"), Whole(0), DefaultAdditionalFanRate, Str(""))>>),
       !.repairs =
           IF Len(reps) > 0
           THEN List([i \in 1..Len(reps) |->
                   Repair(ToStr(Coalesce(reps[i].description, Str(""))),
                          NumOr(reps[i].amount, Whole(0)))])
           ELSE List(<<Repair(Str(""), Whole(0))>>),
       !.stdFilterQty = stdQty,
       !.stdFilterRate = DefaultStdFilterRate,
       !.nonStdFilterQty = Whole(0),
       !.nonStdFilterRate = DefaultNonStdFilterRate,
       !.fuelSurcharge = DefaultFuelSurcharge,
       !.filterExchangeQty = exQty]

buildDraftFromState ==
    BuildDraft(filters, cleaningFrequency, baseRate, additionalItems, repairs,
               stdFilterQty, filterExchangeQty)

\* the dependency lists of the two effects
EquipmentDeps == <<hoods, fans, filters, pricingTouched, cleaningFrequency>>
WriteDeps == <<cleaningFrequency, hoods, fans, filters, baseRate, stdFilterQty,
               filterExchangeQty>>

Idle == ~effPending /\ ~wrPending

Init ==
    /\ FormInit
    /\ PreviewInit
    /\ ServerInit
    /\ JobInit
    /\ fnPc = "none"
    /\ fnArg = Undef
    /\ fnInc = Undef
    /\ fnDraft = EmptyDraft
    /\ fnDraft2 = EmptyDraft
    /\ fnList = NoResult
    /\ fnTotals = Threw

MaxInbox == 1
MaxSteps == 5

\* writeDraft with a store that accepts everything
SetItemAlways(text) == text

\* the slot after writeDraft: localStorage.setItem throws when the quota is
\* exceeded or storage is disabled, the slot keeps its content and writeDraft
\* swallows the exception
SetItem(text) == IF storeFull THEN stored ELSE text

\* the storage event of a write made by the form: dispatched to the other
\* window, the preview, when it is open and the value of the slot changed
FormWrote ==
    /\ pvInbox' = IF pvOpen /\ stored' # stored THEN Append(pvInbox, stored') ELSE pvInbox
    /\ UNCHANGED <<pvOpen, pvDraft, pvEditDraft, pvIsEditing, formInbox, storeFull,
                   pvSeen, formSeen>>
    /\ UNCHANGED pvSteps

\* the equipment effect copying the filter count whatever the flag
FilterQtyAlways(qty) == filters

\* a filter quantity after the equipment effect:
\* if (!pricingTouched) { setStdFilterQty(filters); setFilterExchangeQty(filters) }
FilterQtyAfterEffect(qty) == IF ~pricingTouched THEN filters ELSE qty

\* One commit: the equipment effect (when its dependencies changed) queues its
\* updates, the write-draft effect (when its dependencies changed) writes the
\* draft built from the state of this render; the queued updates then cause
\* the next render, in which additionalItems is a new array.
CommitEffects ==
    /\ effPending \/ wrPending
    /\ IF effPending
       THEN /\ additionalItems' = DeriveItems(additionalItems, cleaningFrequency, hoods, fans)
            /\ stdFilterQty' = FilterQtyAfterEffect(stdFilterQty)
            /\ filterExchangeQty' = FilterQtyAfterEffect(filterExchangeQty)
       ELSE UNCHANGED <<additionalItems, stdFilterQty, filterExchangeQty>>
    /\ IF wrPending
       THEN stored' = SetItem(writeDraft(mergeDraft(readDraft(stored), buildDraftFromState)))
       ELSE UNCHANGED stored
    /\ effPending' = FALSE
    /\ wrPending' = effPending
    /\ FormWrote
    /\ UNCHANGED <<hoods, fans, filters, cleaningFrequency, baseRate, repairs,
                   pricingTouched, history, lastOp>>
    /\ UNCHANGED <<fnVars, serverVars, jobVars>>

\* onChange of the Hoods input: setHoods(Math.max(1, toInt(e.target.value)))
SetHoods ==
    /\ Idle
    /\ \E k \in 0..MaxCount : hoods' = MathMax(Whole(1), Whole(k))
    /\ effPending' = (hoods' # hoods)
    /\ wrPending' = (hoods' # hoods)
    /\ lastOp' = "setHoods"
    /\ UNCHANGED <<fans, filters, cleaningFrequency, baseRate, additionalItems, repairs,
                   stdFilterQty, filterExchangeQty, pricingTouched, history, stored>>
    /\ UNCHANGED <<fnVars, previewVars, serverVars, jobVars>>

\* onChange of the Fans input
SetFans ==
    /\ Idle
    /\ \E k \in 0..MaxCount : fans' = MathMax(Whole(1), Whole(k))
    /\ effPending' = (fans' # fans)
    /\ wrPending' = (fans' # fans)
    /\ lastOp' = "setFans"
    /\ UNCHANGED <<hoods, filters, cleaningFrequency, baseRate, additionalItems, repairs,
                   stdFilterQty, filterExchangeQty, pricingTouched, history, stored>>
    /\ UNCHANGED <<fnVars, previewVars, serverVars, jobVars>>

\* onChange of the Filters input: setFilters(toInt(e.target.value))
SetFilters ==
    /\ Idle
    /\ Len(pvInbox) < MaxInbox
    /\ \E k \in 0..MaxFilters : filters' = Whole(k)
    /\ effPending' = (filters' # filters)
    /\ wrPending' = (filters' # filters)
    /\ lastOp' = "setFilters"
    /\ UNCHANGED <<hoods, fans, cleaningFrequency, baseRate, additionalItems, repairs,
                   stdFilterQty, filterExchangeQty, pricingTouched, history, stored>>
    /\ UNCHANGED <<fnVars, previewVars, serverVars, jobVars>>

\* Create New that also returns the form to the derived regime
CreateNewResetsTouched ==
    /\ Idle
    /\ hoods' = Whole(1)
    /\ fans' = Whole(1)
    /\ filters' = Whole(0)
    /\ pricingTouched' = FALSE
    /\ UNCHANGED <<cleaningFrequency, baseRate, additionalItems, repairs, stdFilterQty,
                   filterExchangeQty, history, stored>>
    /\ effPending' = (EquipmentDeps' # EquipmentDeps)
    /\ wrPending' = (<<hoods', fans', filters'>> # <<hoods, fans, filters>>)
    /\ lastOp' = "createNew"
    /\ UNCHANGED <<fnVars, previewVars, serverVars, jobVars>>

\* the Create New button
CreateNew ==
    /\ Idle
    /\ hoods' = Whole(1)
    /\ fans' = Whole(1)
    /\ filters' = Whole(0)
    /\ effPending' = (<<hoods', fans', filters'>> # <<hoods, fans, filters>>)
    /\ wrPending' = (<<hoods', fans', filters'>> # <<hoods, fans, filters>>)
    /\ lastOp' = "createNew"
    /\ UNCHANGED <<cleaningFrequency, baseRate, additionalItems, repairs, stdFilterQty,
                   filterExchangeQty, pricingTouched, history, stored>>
    /\ UNCHANGED <<fnVars, previewVars, serverVars, jobVars>>

\* What the proposal preview window can put in the slot: its draft is the
\* stored draft with defaults applied, edited and saved (the first line
\* retyped in lower case with blanks around it and 2 typed as its quantity),
\* or the slot is written by a build that still uses the legacy fields, or it
\* is left with text that does not parse.
WithItem(draft, i, item) ==
    LET list == normalizeAdditionalItems(draft)
    IN  [draft EXCEPT !.additionalItems =
            List([j \in 1..Len(list) |-> IF j = i THEN item ELSE list[j]])]

PreviewEdits(draft) ==
    LET list == normalizeAdditionalItems(draft)
    IN  {WithItem(draft, 1, [list[1] EXCEPT !.description = Str(" additional hood "),
                                             !.qty = Whole(2)])}

LegacyWrite ==
    [EmptyDraft EXCEPT !.additionalHoodQty = Whole(2), !.additionalFanQty = Str("abc")]

SlotWrites(slot) ==
    {writeDraft(d) : d \in PreviewEdits(readDraft(slot))}
    \cup {writeDraft(LegacyWrite), Garbage}

\* the value of the first item whose key is name, as Number(item?.qty) || 0
FoundQty(items, name) ==
    LET i == FindIndex(items, name)
    IN  IF i = 0 THEN Whole(0) ELSE OrElse(ToNumber(items[i].qty), Whole(0))

\* setPricingTouched(true) of the listener without its condition on the payload
TouchedOnStorageIfItems(incoming) == pricingTouched \/ IsArray(incoming.additionalItems)

\* the flag after the storage listener: setPricingTouched(true), whatever the
\* payload
TouchedOnStorage(incoming) == TRUE

\* the form's storage listener on an event whose newValue is the text of slot:
\* e.newValue parsed, {} when it is null or does not parse
StorageListener(slot) ==
    LET incoming == IF slot.kind = "json" THEN slot.v ELSE EmptyDraft
        hasItems == IsArray(incoming.additionalItems)
        hasLegacy == \/ ~IsNullish(incoming.additionalHoodQty)
                     \/ ~IsNullish(incoming.additionalFanQty)
                     \/ ~IsNullish(incoming.additionalHoodRate)
                     \/ ~IsNullish(incoming.additionalFanRate)
        normalized ==
            IF hasItems
            THEN normalizeAdditionalItems(
                    ItemsDraft(incoming.additionalItems, incoming.cleaningFrequency))
            ELSE normalizeAdditionalItems(incoming)
        hasRepairs == IsArray(incoming.repairs)
        hasLegacyRepair == \/ incoming.repairDescription.t # "undef"
                           \/ incoming.repairRate.t # "undef"
    IN  /\ cleaningFrequency' = IF incoming.cleaningFrequency.t # "undef"
                                THEN incoming.cleaningFrequency ELSE cleaningFrequency
        /\ filters' = IF incoming.filters.t # "undef"
                      THEN OrElse(ToNumber(incoming.filters), Whole(0)) ELSE filters
        /\ baseRate' = IF incoming.baseRate.t # "undef" THEN incoming.baseRate ELSE baseRate
        /\ additionalItems' = IF hasItems \/ hasLegacy THEN normalized ELSE additionalItems
        /\ hoods' = CASE hasItems ->
                           Add(Whole(1), FoundQty(normalized, "additional hood"))
                      [] ~hasItems /\ hasLegacy ->
                           Add(Whole(1), OrElse(ToNumber(incoming.additionalHoodQty), Whole(0)))
                      [] OTHER -> hoods
        /\ fans' = CASE hasItems ->
                          Add(Whole(1), FoundQty(normalized, "additional fan"))
                     [] ~hasItems /\ hasLegacy ->
                          Add(Whole(1), OrElse(ToNumber(incoming.additionalFanQty), Whole(0)))
                     [] OTHER -> fans
        /\ repairs' = CASE hasRepairs -> incoming.repairs.a
                        [] ~hasRepairs /\ hasLegacyRepair ->
                             normalizeRepairs(
                                [EmptyDraft EXCEPT
                                   !.repairDescription = incoming.repairDescription,
                                   !.repairRate = incoming.repairRate])
                        [] OTHER -> repairs
        /\ stdFilterQty' = IF incoming.stdFilterQty.t # "undef"
                           THEN incoming.stdFilterQty ELSE stdFilterQty
        /\ filterExchangeQty' = IF incoming.filterExchangeQty.t # "undef"
                                THEN incoming.filterExchangeQty ELSE filterExchangeQty
        /\ wrPending' = \/ hasItems \/ hasLegacy \/ hasRepairs \/ hasLegacyRepair
                        \/ WriteDeps' # WriteDeps
        /\ pricingTouched' = TouchedOnStorage(incoming)
        /\ effPending' = (EquipmentDeps' # EquipmentDeps)
        /\ lastOp' = "onStorage"

\* another window writes the slot and the form's storage listener runs on the
\* event
OnStorage ==
    /\ Idle
    /\ \E slot \in SlotWrites(stored) :
        /\ stored' = slot
        /\ StorageListener(slot)
    /\ UNCHANGED history
    /\ UNCHANGED <<fnVars, previewVars, serverVars, jobVars>>

\* the Proposal Preview button: openProposalPreview(buildDraftFromState())
\* writes the built draft over the slot and opens a preview window, whose
\* draft is readDraft() at mount; a preview that is already open is another
\* window and gets the storage event
OpenPreview ==
    /\ pvSteps < MaxSteps
    /\ pvSteps' = pvSteps + 1
    /\ Idle
    /\ stored' = SetItem(writeDraft(buildDraftFromState))
    /\ lastOp' = "openPreview"
    /\ pvOpen' = TRUE
    /\ IF pvOpen
       THEN /\ pvInbox' = IF stored' # stored THEN Append(pvInbox, stored') ELSE pvInbox
            /\ UNCHANGED <<pvDraft, pvEditDraft, pvIsEditing>>
       ELSE /\ pvDraft' = readDraft(stored')
            /\ pvEditDraft' = pvDraft'
            /\ pvIsEditing' = FALSE
            /\ UNCHANGED pvInbox
    /\ UNCHANGED <<hoods, fans, filters, cleaningFrequency, baseRate, additionalItems,
                   repairs, stdFilterQty, filterExchangeQty, pricingTouched, history,
                   effPending, wrPending>>
    /\ UNCHANGED <<formInbox, storeFull, pvSeen, formSeen>>
    /\ UNCHANGED <<fnVars, serverVars, jobVars>>

\* the history item handleGenerate builds from the state of the render in
\* which Generate was clicked; reportId is 0 for null
HistoryItem(id, reportId) ==
    [id |-> id, reportId |-> reportId,
     hoods |-> hoods, fans |-> fans, filters |-> filters,
     pricingTouched |-> Bool(pricingTouched), proposalDraft |-> buildDraftFromState]

HistoryLimit == 50

Take(seq, n) == IF Len(seq) <= n THEN seq ELSE SubSeq(seq, 1, n)

\* a count as the server stores it: String(hoods || "0") of the form field
ServerField(v) == ToStr(OrElse(ToStr(v), Str("0")))

\* the document saveReport stores: no pricingTouched, no proposalDraft
ServerReport(id) ==
    [id |-> id, hoods |-> ServerField(hoods), fans |-> ServerField(fans),
     filters |-> ServerField(filters)]

\* what a generation recorded in its history item
Recorded == [pricingTouched |-> pricingTouched, proposalDraft |-> buildDraftFromState]

\* handleGenerate taken as one step, from a click that passed its gate (see
\* GenerateClick) to a successful response: the server has saved the report
\* and returned its reportId when it is configured to; the item's id is the
\* reportId or a fresh one;
\* setHistory(prev => [item, ...prev].slice(0, 50))
Generate ==
    /\ Idle
    /\ Len(history) < MaxHistory
    /\ LET id == Len(genLog) + 1
           reportId == IF serverUp THEN id ELSE 0
       IN  /\ history' = Take(<<HistoryItem(id, reportId)>> \o history, HistoryLimit)
           /\ serverReports' = IF serverUp THEN <<ServerReport(id)>> \o serverReports
                                ELSE serverReports
    /\ genLog' = Append(genLog, Recorded)
    /\ lastOp' = "generate"
    /\ UNCHANGED <<hoods, fans, filters, cleaningFrequency, baseRate, additionalItems,
                   repairs, stdFilterQty, filterExchangeQty, pricingTouched, stored,
                   effPending, wrPending>>
    /\ UNCHANGED <<serverUp, fetchPending>>
    /\ UNCHANGED <<fnVars, previewVars, jobVars>>

\* the state updates of the onClick of the Recent History entry h: the counts
\* always; the pricing fields and the stored draft if (draft); the flag if
\* typeof h.snapshot.pricingTouched === "boolean"
LoadEntry(h) ==
    LET draft == h.proposalDraft
        has == Truthy(draft)
        freq == Coalesce(draft.cleaningFrequency, Str(""))
    IN  /\ hoods' = Coalesce(h.hoods, Whole(0))
        /\ fans' = Coalesce(h.fans, Whole(0))
        /\ filters' = Coalesce(h.filters, Whole(0))
        /\ cleaningFrequency' = IF has THEN freq ELSE cleaningFrequency
        /\ baseRate' = IF has THEN ToStr(Coalesce(draft.baseRate, DefaultBaseRate))
                       ELSE baseRate
        /\ additionalItems' =
              IF has THEN normalizeAdditionalItems(ItemsDraft(draft.additionalItems, freq))
              ELSE additionalItems
        /\ repairs' = IF ~has THEN repairs
                      ELSE IF IsArray(draft.repairs) /\ Len(draft.repairs.a) > 0
                      THEN draft.repairs.a ELSE <<Repair(Str(""), Whole(0))>>
        /\ stdFilterQty' = IF has THEN Coalesce(draft.stdFilterQty, Whole(0))
                           ELSE stdFilterQty
        /\ filterExchangeQty' = IF has THEN Coalesce(draft.filterExchangeQty, Whole(0))
                                ELSE filterExchangeQty
        /\ stored' = IF has THEN SetItem(writeDraft(mergeDraft(readDraft(stored), draft)))
                     ELSE stored
        /\ pricingTouched' = IF h.pricingTouched.t = "bool" THEN h.pricingTouched.n = 1
                             ELSE pricingTouched
        /\ effPending' = (EquipmentDeps' # EquipmentDeps)
        /\ wrPending' = (has \/ WriteDeps' # WriteDeps)
        /\ lastOp' = "loadHistory"

\* the onClick keeping the entry in step with the draft it has just stored
LoadHistoryRefreshesEntry ==
    /\ Idle
    /\ \E i \in 1..Len(history) :
        /\ LoadEntry(history[i])
        /\ history' = [history EXCEPT ![i].proposalDraft = stored'.v]
    /\ FormWrote
    /\ UNCHANGED <<fnVars, serverVars, jobVars>>

\* onClick of a Recent History entry
LoadHistory ==
    /\ Idle
    /\ \E i \in 1..Len(history) : LoadEntry(history[i])
    /\ UNCHANGED history
    /\ FormWrote
    /\ UNCHANGED <<fnVars, serverVars, jobVars>>

-----------------------------------------------------------------------------
(* The proposal preview window (ProposalPreview.jsx), the storage events     *)
(* between the two windows, and a store that can refuse writes.             *)

\* the form's storage listener handles the oldest event dispatched to it
FormReceive ==
    /\ Idle
    /\ formInbox # <<>>
    /\ StorageListener(Head(formInbox))
    /\ formInbox' = Tail(formInbox)
    /\ formSeen' = 1 - formSeen
    /\ UNCHANGED <<history, stored>>
    /\ UNCHANGED <<pvOpen, pvDraft, pvEditDraft, pvIsEditing, pvInbox, storeFull, pvSeen>>
    /\ UNCHANGED pvSteps
    /\ UNCHANGED <<fnVars, serverVars, jobVars>>

\* startEdit: setEditDraft(active); setIsEditing(true)
PvStartEdit ==
    /\ pvSteps < MaxSteps
    /\ pvSteps' = pvSteps + 1
    /\ pvOpen
    /\ ~pvIsEditing
    /\ pvEditDraft' = pvDraft
    /\ pvIsEditing' = TRUE
    /\ lastOp' = "pvStartEdit"
    /\ UNCHANGED <<hoods, fans, filters, cleaningFrequency, baseRate, additionalItems,
                   repairs, stdFilterQty, filterExchangeQty, pricingTouched, history,
                   stored, effPending, wrPending>>
    /\ UNCHANGED <<pvOpen, pvDraft, pvInbox, formInbox, storeFull, pvSeen, formSeen>>
    /\ UNCHANGED <<fnVars, serverVars, jobVars>>

\* what is typed in the preview's inputs: the Base Rate box emptied, a fuel
\* surcharge frequency selected, a credit typed as the fuel surcharge
PvInputs ==
    {<<"baseRate", Str("")>>, <<"fuelFrequency", Str("Monthly")>>,
     <<"fuelSurcharge", Str("-5")>>}

\* set(key)(val): setEditDraft(p => ({ ...p, [key]: val }))
PvSet ==
    /\ pvSteps < MaxSteps
    /\ pvSteps' = pvSteps + 1
    /\ pvOpen
    /\ pvIsEditing
    /\ \E kv \in PvInputs :
          /\ pvEditDraft[kv[1]] # kv[2]
          /\ pvEditDraft' = [pvEditDraft EXCEPT ![kv[1]] = kv[2]]
    /\ lastOp' = "pvSet"
    /\ UNCHANGED <<hoods, fans, filters, cleaningFrequency, baseRate, additionalItems,
                   repairs, stdFilterQty, filterExchangeQty, pricingTouched, history,
                   stored, effPending, wrPending>>
    /\ UNCHANGED <<pvOpen, pvDraft, pvIsEditing, pvInbox, formInbox, storeFull,
                   pvSeen, formSeen>>
    /\ UNCHANGED <<fnVars, serverVars, jobVars>>

\* saveEdit: writeDraft(editDraft); setDraft(editDraft); setIsEditing(false);
\* the storage event goes to the form when the value of the slot changed
PvSave ==
    /\ pvSteps < MaxSteps
    /\ pvSteps' = pvSteps + 1
    /\ pvOpen
    /\ pvIsEditing
    /\ stored' = SetItem(writeDraft(pvEditDraft))
    /\ pvDraft' = pvEditDraft
    /\ pvIsEditing' = FALSE
    /\ formInbox' = IF stored' # stored THEN Append(formInbox, stored') ELSE formInbox
    /\ lastOp' = "pvSave"
    /\ UNCHANGED <<hoods, fans, filters, cleaningFrequency, baseRate, additionalItems,
                   repairs, stdFilterQty, filterExchangeQty, pricingTouched, history,
                   effPending, wrPending>>
    /\ UNCHANGED <<pvOpen, pvEditDraft, pvInbox, storeFull, pvSeen, formSeen>>
    /\ UNCHANGED <<fnVars, serverVars, jobVars>>

\* cancelEdit: setEditDraft(readDraft()); setIsEditing(false); the effect on
\* [draft, isEditing] then sets editDraft to draft
PvCancel ==
    /\ pvSteps < MaxSteps
    /\ pvSteps' = pvSteps + 1
    /\ pvOpen
    /\ pvIsEditing
    /\ pvEditDraft' = pvDraft
    /\ pvIsEditing' = FALSE
    /\ lastOp' = "pvCancel"
    /\ UNCHANGED <<hoods, fans, filters, cleaningFrequency, baseRate, additionalItems,
                   repairs, stdFilterQty, filterExchangeQty, pricingTouched, history,
                   stored, effPending, wrPending>>
    /\ UNCHANGED <<pvOpen, pvDraft, pvInbox, formInbox, storeFull, pvSeen, formSeen>>
    /\ UNCHANGED <<fnVars, serverVars, jobVars>>

\* the draft the preview's storage listener sets for an event whose newValue
\* is the text of slot: applyDefaults(incoming || {}), the previous draft
\* when the text does not parse
PvAdopted(slot) ==
    CASE slot.kind = "garbage" -> pvDraft
      [] slot.kind = "json" ->
           applyDefaults(IF Truthy(slot.v) THEN slot.v ELSE EmptyDraft)
      [] OTHER -> applyDefaults(EmptyDraft)

\* the listener leaving the draft alone while the user is editing
PvReceiveUnlessEditing ==
    /\ pvOpen
    /\ pvInbox # <<>>
    /\ pvDraft' = IF pvIsEditing THEN pvDraft ELSE PvAdopted(Head(pvInbox))
    /\ pvEditDraft' = IF pvIsEditing THEN pvEditDraft ELSE pvDraft'
    /\ pvInbox' = Tail(pvInbox)
    /\ pvSeen' = 1 - pvSeen
    /\ lastOp' = "pvReceive"
    /\ UNCHANGED <<hoods, fans, filters, cleaningFrequency, baseRate, additionalItems,
                   repairs, stdFilterQty, filterExchangeQty, pricingTouched, history,
                   stored, effPending, wrPending>>
    /\ UNCHANGED <<pvOpen, pvIsEditing, formInbox, storeFull, formSeen>>
    /\ UNCHANGED pvSteps
    /\ UNCHANGED <<fnVars, serverVars, jobVars>>

\* the listener's draft reaching the edit copy while the user is editing
PvReceiveIntoEdit ==
    /\ pvOpen
    /\ pvInbox # <<>>
    /\ pvDraft' = PvAdopted(Head(pvInbox))
    /\ pvEditDraft' = pvDraft'
    /\ pvInbox' = Tail(pvInbox)
    /\ pvSeen' = 1 - pvSeen
    /\ lastOp' = "pvReceive"
    /\ UNCHANGED <<hoods, fans, filters, cleaningFrequency, baseRate, additionalItems,
                   repairs, stdFilterQty, filterExchangeQty, pricingTouched, history,
                   stored, effPending, wrPending>>
    /\ UNCHANGED <<pvOpen, pvIsEditing, formInbox, storeFull, formSeen>>
    /\ UNCHANGED pvSteps
    /\ UNCHANGED <<fnVars, serverVars, jobVars>>

\* the preview's storage listener handles the oldest event dispatched to it:
\* setDraft(...), and the effect on [draft, isEditing] copies the draft to
\* editDraft unless the user is editing
PvReceive ==
    /\ pvOpen
    /\ pvInbox # <<>>
    /\ pvDraft' = PvAdopted(Head(pvInbox))
    /\ pvEditDraft' = IF pvIsEditing THEN pvEditDraft ELSE pvDraft'
    /\ pvInbox' = Tail(pvInbox)
    /\ pvSeen' = 1 - pvSeen
    /\ lastOp' = "pvReceive"
    /\ UNCHANGED <<hoods, fans, filters, cleaningFrequency, baseRate, additionalItems,
                   repairs, stdFilterQty, filterExchangeQty, pricingTouched, history,
                   stored, effPending, wrPending>>
    /\ UNCHANGED <<pvOpen, pvIsEditing, formInbox, storeFull, formSeen>>
    /\ UNCHANGED pvSteps
    /\ UNCHANGED <<fnVars, serverVars, jobVars>>

\* the store starts or stops refusing writes (quota reached or freed, storage
\* disabled or enabled in the browser)
StoreToggles ==
    /\ pvSteps < MaxSteps
    /\ pvSteps' = pvSteps + 1
    /\ storeFull' = ~storeFull
    /\ UNCHANGED formVars
    /\ UNCHANGED <<pvOpen, pvDraft, pvEditDraft, pvIsEditing, pvInbox, formInbox,
                   pvSeen, formSeen>>
    /\ UNCHANGED <<fnVars, serverVars, jobVars>>

\* the draft the preview renders: isEditing ? editDraft : draft
active == IF pvIsEditing THEN pvEditDraft ELSE pvDraft

\* the amount money(v) prints: Number(v), or none ("$") when it is not finite
money(v) == IF IsFinite(ToNumber(v)) THEN ToNumber(v) ELSE NaN

\* the amounts of the rows of additional items that are shown: those with
\* (item.qty || 0) * (item.rate || 0) > 0
RECURSIVE ItemRows(_, _)
ItemRows(list, i) ==
    IF i = 0 THEN Whole(0)
    ELSE LET lineTotal == Mul(OrElse(list[i].qty, Whole(0)), OrElse(list[i].rate, Whole(0)))
         IN  IF Less(Whole(0), lineTotal)
             THEN Add(ItemRows(list, i - 1), money(lineTotal))
             ELSE ItemRows(list, i - 1)

\* the amounts of the repair rows that are shown: those with a description
\* or an amount, and Number(r.amount) > 0
RECURSIVE RepairRows(_, _)
RepairRows(list, i) ==
    IF i = 0 THEN Whole(0)
    ELSE IF Truthy(OrElse(list[i].description, list[i].amount))
            /\ Less(Whole(0), ToNumber(list[i].amount))
         THEN Add(RepairRows(list, i - 1), money(list[i].amount))
         ELSE RepairRows(list, i - 1)

\* the amount of a filter row, shown when safeNum(qty) * safeNum(rate) > 0
FilterRow(qty, rate) ==
    LET amount == Mul(safeNum(qty), safeNum(rate))
    IN  IF Less(Whole(0), amount) THEN money(amount) ELSE Whole(0)

\* the sum of the Amount column of the preview's table for the draft d
RowsTotal(d) ==
    LET items == normalizeAdditionalItems(d)
        reps == normalizeRepairs(d)
        fuel == computeTotals(d).fuelSubtotal
    IN  Add(money(d.baseRate),
        Add(ItemRows(items, Len(items)),
        Add(FilterRow(d.stdFilterQty, d.stdFilterRate),
        Add(FilterRow(d.nonStdFilterQty, d.nonStdFilterRate),
        Add(RepairRows(reps, Len(reps)),
            IF Less(Whole(0), fuel) THEN money(fuel) ELSE Whole(0))))))

NextSync ==
    \/ CommitEffects
    \/ SetFilters
    \/ OpenPreview
    \/ FormReceive
    \/ PvStartEdit
    \/ PvSet
    \/ PvSave
    \/ PvCancel
    \/ PvReceive
    \/ StoreToggles

SpecSync == Init /\ [][NextSync]_vars

\* The three steps the event loops owe: the effects of a render run; a window
\* handles the storage event at the head of its queue.  Each is written over
\* the variables that tell the step apart, so that it is a step of
\* CommitEffects, FormReceive, PvReceive and of no other action.
Commits == ~Idle /\ effPending' = FALSE /\ wrPending' = effPending
FormHandles == Idle /\ formInbox # <<>> /\ formSeen' = 1 - formSeen
PvHandles == pvOpen /\ pvInbox # <<>> /\ pvSeen' = 1 - pvSeen

\* every pending effect runs and every queued storage event is handled: the
\* event loop of each window runs the tasks queued to it; the form handles an
\* event between two renders, which is why its condition is the strong one
SpecSyncFair ==
    /\ SpecSync
    /\ WF_<<effPending, wrPending>>(Commits)
    /\ SF_formSeen(FormHandles)
    /\ WF_pvSeen(PvHandles)

-----------------------------------------------------------------------------
(* Page reload and the history the server returns (App.jsx 233-239, 427-475, *)
(* server/index.js).                                                        *)

\* a history item after JSON.stringify / JSON.parse in inspectai_history
JsonEntry(h) ==
    [h EXCEPT !.proposalDraft = IF IsObject(@) THEN JsonRoundTrip(@) ELSE @]

\* the item the form builds from a report of GET /api/reports
ServerItem(r) ==
    [id |-> r.id, reportId |-> r.id,
     hoods |-> OrElse(ToNumber(r.hoods), Whole(0)),
     fans |-> OrElse(ToNumber(r.fans), Whole(0)),
     filters |-> OrElse(ToNumber(r.filters), Whole(0)),
     pricingTouched |-> Undef, proposalDraft |-> Undef]

\* sort by createdAt, newest first; ids are given in the order of creation
RECURSIVE NewestFirst(_)
NewestFirst(items) ==
    IF items = {} THEN <<>>
    ELSE LET top == CHOOSE x \in items : \A y \in items : y.id <= x.id
         IN  <<top>> \o NewestFirst(items \ {top})

\* "prefer server items, add any local-only items not on server"
MergeHistory(prev, reports) ==
    LET serverIds == {reports[i].id : i \in 1..Len(reports)}
    IN  NewestFirst({ServerItem(reports[i]) : i \in 1..Len(reports)}
                    \cup {prev[i] : i \in {k \in 1..Len(prev) :
                                              /\ prev[k].id \notin serverIds
                                              /\ prev[k].reportId \notin serverIds}})

\* the page is reloaded: the form's state is the initial one, the history is
\* read back from inspectai_history, the stored draft stays, and the fetch of
\* the server's history is under way
Reload ==
    /\ Idle
    /\ hoods' = Whole(1)
    /\ fans' = Whole(1)
    /\ filters' = Whole(0)
    /\ cleaningFrequency' = Str("")
    /\ baseRate' = Str("723")
    /\ additionalItems' =
         <<Item(Str("Additional Hood"), Whole(0), DefaultAdditionalHoodRate, Str("")),
           Item(Str("Additional Fan"), Whole(0), DefaultAdditionalFanRate, Str(""))>>
    /\ repairs' = <<Repair(Str(""), Whole(0))>>
    /\ stdFilterQty' = Whole(0)
    /\ filterExchangeQty' = Whole(0)
    /\ pricingTouched' = FALSE
    /\ history' = [i \in 1..Len(history) |-> JsonEntry(history[i])]
    /\ effPending' = TRUE
    /\ wrPending' = TRUE
    /\ lastOp' = "mount"
    /\ fetchPending' = TRUE
    /\ UNCHANGED <<stored, serverUp, serverReports, genLog>>
    /\ UNCHANGED <<fnVars, previewVars, jobVars>>

\* the fetch made on mount resolves: with a non-empty list of reports the
\* history becomes the merge; a failed fetch or an empty list changes nothing
ServerMerge ==
    /\ Idle
    /\ fetchPending
    /\ fetchPending' = FALSE
    /\ history' = IF serverUp /\ Len(serverReports) > 0
                  THEN MergeHistory(history, serverReports) ELSE history
    /\ lastOp' = "serverMerge"
    /\ UNCHANGED <<hoods, fans, filters, cleaningFrequency, baseRate, additionalItems,
                   repairs, stdFilterQty, filterExchangeQty, pricingTouched, stored,
                   effPending, wrPending>>
    /\ UNCHANGED <<serverUp, serverReports, genLog>>
    /\ UNCHANGED <<fnVars, previewVars, jobVars>>

\* report storage is configured on the server: from now on it saves the
\* reports it generates
ServerStarts ==
    /\ ~serverUp
    /\ serverUp' = TRUE
    /\ UNCHANGED formVars
    /\ UNCHANGED <<serverReports, fetchPending, genLog>>
    /\ UNCHANGED <<fnVars, previewVars, jobVars>>

NextHistory ==
    \/ CommitEffects
    \/ SetHoods
    \/ OnStorage
    \/ Generate
    \/ LoadHistory
    \/ Reload
    \/ ServerMerge
    \/ ServerStarts

SpecHistory == Init /\ [][NextHistory]_vars

-----------------------------------------------------------------------------
Next ==
    \/ CommitEffects
    \/ SetHoods
    \/ SetFans
    \/ SetFilters
    \/ CreateNew
    \/ OnStorage
    \/ Generate
    \/ LoadHistory

Spec == Init /\ [][Next]_vars

-----------------------------------------------------------------------------
(* The Generate button (App.jsx handleGenerate).  The handler runs up to its *)
(* await of fetch in the click; the rest runs when the response arrives.     *)
(* Each request keeps the form's values of the render it was made in.  Of    *)
(* the inputs set here only the restaurant name is a dependency of the       *)
(* write-draft effect.                                                       *)

MaxGenerations == 2
MaxPhotos == 1
PhotoLimit == 20

\* what is typed in the Restaurant Name and Notes inputs
Texts == {"", " ", "Luigi's"}

Min(a, b) == IF a < b THEN a ELSE b

Without(seq, i) == SubSeq(seq, 1, i - 1) \o SubSeq(seq, i + 1, Len(seq))

\* restaurantName.trim().length > 0 &&
\* (notes.trim().length > 0 || photos.length > 0)
canGenerate == Trim(restaurantName) # "" /\ (Trim(notes) # "" \/ photos > 0)

\* the gate without the test of isGenerating
MayGenerateWhileGenerating == canGenerate

\* handleGenerate goes on: if (!canGenerate || isGenerating) return;
MayGenerate == canGenerate /\ ~isGenerating

\* onChange of the Restaurant Name input
SetRestaurantName ==
    /\ Idle
    /\ \E v \in Texts \ {restaurantName} : restaurantName' = v
    /\ wrPending' = TRUE
    /\ lastOp' = "setRestaurantName"
    /\ UNCHANGED <<hoods, fans, filters, cleaningFrequency, baseRate, additionalItems,
                   repairs, stdFilterQty, filterExchangeQty, pricingTouched, history,
                   stored, effPending>>
    /\ UNCHANGED <<notes, photos, isGenerating, apiError, requests>>
    /\ UNCHANGED <<fnVars, previewVars, serverVars, retentionVars, poolVars, retryVars>>

\* onChange of the Notes input
SetNotes ==
    /\ Idle
    /\ \E v \in Texts \ {notes} : notes' = v
    /\ lastOp' = "setNotes"
    /\ UNCHANGED <<hoods, fans, filters, cleaningFrequency, baseRate, additionalItems,
                   repairs, stdFilterQty, filterExchangeQty, pricingTouched, history,
                   stored, effPending, wrPending>>
    /\ UNCHANGED <<restaurantName, photos, isGenerating, apiError, requests>>
    /\ UNCHANGED <<fnVars, previewVars, serverVars, retentionVars, poolVars, retryVars>>

\* a photo is dropped or picked: setPhotos(prev => [...prev, ...files].slice(0, 20))
AddPhoto ==
    /\ Idle
    /\ photos < MaxPhotos
    /\ photos' = Min(photos + 1, PhotoLimit)
    /\ lastOp' = "addPhoto"
    /\ UNCHANGED <<hoods, fans, filters, cleaningFrequency, baseRate, additionalItems,
                   repairs, stdFilterQty, filterExchangeQty, pricingTouched, history,
                   stored, effPending, wrPending>>
    /\ UNCHANGED <<restaurantName, notes, isGenerating, apiError, requests>>
    /\ UNCHANGED <<fnVars, previewVars, serverVars, retentionVars, poolVars, retryVars>>

\* a photo is removed: setPhotos(prev => prev.filter((_, idx) => idx !== i))
RemovePhoto ==
    /\ Idle
    /\ photos > 0
    /\ photos' = photos - 1
    /\ lastOp' = "removePhoto"
    /\ UNCHANGED <<hoods, fans, filters, cleaningFrequency, baseRate, additionalItems,
                   repairs, stdFilterQty, filterExchangeQty, pricingTouched, history,
                   stored, effPending, wrPending>>
    /\ UNCHANGED <<restaurantName, notes, isGenerating, apiError, requests>>
    /\ UNCHANGED <<fnVars, previewVars, serverVars, retentionVars, poolVars, retryVars>>

\* handleGenerate up to the await of fetch: setApiError("");
\* setIsGenerating(true); the request is sent
GenerateClick ==
    /\ Idle
    /\ MayGenerate
    /\ Len(genLog) + Len(requests) < MaxGenerations
    /\ apiError' = ""
    /\ isGenerating' = TRUE
    /\ requests' = Append(requests, HistoryItem(0, 0))
    /\ lastOp' = "generateClick"
    /\ UNCHANGED <<hoods, fans, filters, cleaningFrequency, baseRate, additionalItems,
                   repairs, stdFilterQty, filterExchangeQty, pricingTouched, history,
                   stored, effPending, wrPending>>
    /\ UNCHANGED <<restaurantName, notes, photos>>
    /\ UNCHANGED <<fnVars, previewVars, serverVars, retentionVars, poolVars, retryVars>>

\* the rest of handleGenerate on a response that is ok: the history item is
\* built from the values of the click's render;
\* setHistory(prev => [item, ...prev].slice(0, 50)); finally setIsGenerating(false)
GenerateSucceeds ==
    /\ \E i \in 1..Len(requests) :
          LET id == Len(genLog) + 1
              item == [requests[i] EXCEPT !.id = id,
                                          !.reportId = IF serverUp THEN id ELSE 0]
          IN  /\ history' = Take(<<item>> \o history, HistoryLimit)
              /\ serverReports' =
                    IF serverUp
                    THEN <<[id |-> id, hoods |-> ServerField(item.hoods),
                            fans |-> ServerField(item.fans),
                            filters |-> ServerField(item.filters)]>> \o serverReports
                    ELSE serverReports
              /\ genLog' = Append(genLog, [pricingTouched |-> item.pricingTouched = Bool(TRUE),
                                           proposalDraft |-> item.proposalDraft])
              /\ requests' = Without(requests, i)
    /\ isGenerating' = FALSE
    /\ lastOp' = "generateSucceeds"
    /\ UNCHANGED <<hoods, fans, filters, cleaningFrequency, baseRate, additionalItems,
                   repairs, stdFilterQty, filterExchangeQty, pricingTouched, stored,
                   effPending, wrPending>>
    /\ UNCHANGED <<restaurantName, notes, photos, apiError>>
    /\ UNCHANGED <<serverUp, fetchPending>>
    /\ UNCHANGED <<fnVars, previewVars, retentionVars, poolVars, retryVars>>

\* the rest of handleGenerate when fetch rejects, the response is not ok or
\* its body does not parse: catch sets apiError; finally setIsGenerating(false)
GenerateFails ==
    /\ \E i \in 1..Len(requests) : requests' = Without(requests, i)
    /\ apiError' = "Something went wrong calling /api/generate"
    /\ isGenerating' = FALSE
    /\ lastOp' = "generateFails"
    /\ UNCHANGED <<hoods, fans, filters, cleaningFrequency, baseRate, additionalItems,
                   repairs, stdFilterQty, filterExchangeQty, pricingTouched, history,
                   stored, effPending, wrPending>>
    /\ UNCHANGED <<restaurantName, notes, photos>>
    /\ UNCHANGED <<fnVars, previewVars, serverVars, retentionVars, poolVars, retryVars>>

NextGen ==
    \/ CommitEffects
    \/ SetRestaurantName
    \/ SetNotes
    \/ AddPhoto
    \/ RemovePhoto
    \/ GenerateClick
    \/ GenerateSucceeds
    \/ GenerateFails

SpecGen == Init /\ [][NextGen]_vars

-----------------------------------------------------------------------------
(* Report retention: the cleanup the server runs once when it starts         *)
(* listening (server/index.js app.listen, deleteReportsOlderThan).  A stored *)
(* report is either expired (createdAt before the cutoff, now - 30 days) or  *)
(* recent; the store is described by the number of each.                     *)

MaxExpired == 501
MaxRecent == 1

\* .limit(500) of the cleanup's query
BatchLimit == 500

\* reports that earlier runs of the server saved more than 30 days ago
OldReportsStored ==
    /\ cleanup = "notRun"
    /\ \E n \in {1, BatchLimit} :
          /\ expired + n <= MaxExpired
          /\ expired' = expired + n
    /\ UNCHANGED <<recent, cleanup, deleted>>
    /\ UNCHANGED <<fnVars, formVars, previewVars, serverVars, requestVars, poolVars,
                   retryVars>>

\* a report saved within the last 30 days
RecentReportStored ==
    /\ cleanup = "notRun"
    /\ recent < MaxRecent
    /\ recent' = recent + 1
    /\ UNCHANGED <<expired, cleanup, deleted>>
    /\ UNCHANGED <<fnVars, formVars, previewVars, serverVars, requestVars, poolVars,
                   retryVars>>

\* snap.size of deleteReportsOlderThan: the query where("createdAt", "<",
\* cutoff).limit(500) returns at most 500 of the expired reports, and the
\* batch deletes the ones returned
deleteReportsOlderThan == Min(expired, BatchLimit)

\* the callback of app.listen: deleted = await deleteReportsOlderThan(30)
StartupCleanup ==
    /\ cleanup = "notRun"
    /\ deleted' = deleteReportsOlderThan
    /\ expired' = expired - deleted'
    /\ cleanup' = "done"
    /\ UNCHANGED recent
    /\ UNCHANGED <<fnVars, formVars, previewVars, serverVars, requestVars, poolVars,
                   retryVars>>

\* the query or the batch commit rejects: the callback logs a warning
StartupCleanupFails ==
    /\ cleanup = "notRun"
    /\ cleanup' = "failed"
    /\ UNCHANGED <<expired, recent, deleted>>
    /\ UNCHANGED <<fnVars, formVars, previewVars, serverVars, requestVars, poolVars,
                   retryVars>>

NextRetention ==
    \/ OldReportsStored
    \/ RecentReportStored
    \/ StartupCleanup
    \/ StartupCleanupFails

SpecRetention == Init /\ [][NextRetention]_vars

-----------------------------------------------------------------------------
(* runWithConcurrency(items, limit, worker) as POST /api/generate calls it   *)
(* on the uploaded files.  Indexes are those of the code (from 0).  A worker *)
(* call is in flight from its invocation until its promise settles; the      *)
(* worker of the route catches its own failures and always returns a value.  *)

MaxFiles == 4
MaxLimit == 3

\* a slot of new Array(items.length) that was not assigned
Empty == [filename |-> "", index |-> -1, analysis |-> ""]

\* the uploaded files, by originalname
Files(n) == [k \in 1..n |-> NatStr(k) \o ".jpg"]

\* what a worker call can return for the file at index i: its name with the
\* findings, or with the text put in their place when the analysis failed
WorkerValues(i) ==
    {[filename |-> poolItems[i + 1], index |-> i, analysis |-> a] :
        a \in {"findings", "[Analysis failed]"}}

\* the result appended in the order the calls finish: results.push(value)
StoreResultInOrderOfFinishing(results, current, value) ==
    LET free == {i \in DOMAIN results : results[i] = Empty}
        first == CHOOSE i \in free : \A j \in free : i <= j
    IN  [results EXCEPT ![first] = value]

\* results[current] = value
StoreResult(results, current, value) == [results EXCEPT ![current] = value]

\* the call: results = new Array(items.length); nextIndex = 0; Array.from
\* starts Math.min(limit, items.length) runners, and each runs to its first
\* await: it takes the next index and invokes the worker for it
RunWithConcurrency ==
    /\ poolState = "idle"
    /\ \E n \in 0..MaxFiles, l \in 1..MaxLimit :
          LET m == Min(l, n)
          IN  /\ poolItems' = Files(n)
              /\ poolLimit' = l
              /\ poolResults' = [i \in 0..(n - 1) |-> Empty]
              /\ runners' = [r \in 1..m |-> r - 1]
              /\ nextIndex' = m
              /\ workerCalls' = [i \in 0..(n - 1) |-> IF i < m THEN 1 ELSE 0]
    /\ poolState' = "running"
    /\ UNCHANGED finished
    /\ UNCHANGED <<fnVars, formVars, previewVars, serverVars, requestVars,
                   retentionVars, retryVars>>

\* the worker call a runner awaits settles: results[current] = await ...,
\* then the loop goes round: current = nextIndex++; break when the items are
\* used up, else invoke the worker for current
WorkerFinishes ==
    /\ poolState = "running"
    /\ \E r \in DOMAIN runners :
          /\ runners[r] >= 0
          /\ \E value \in WorkerValues(runners[r]) :
                poolResults' = StoreResult(poolResults, runners[r], value)
          /\ finished' = Append(finished, runners[r])
          /\ nextIndex' = nextIndex + 1
          /\ IF nextIndex >= Len(poolItems)
             THEN /\ runners' = [runners EXCEPT ![r] = -1]
                  /\ UNCHANGED workerCalls
             ELSE /\ runners' = [runners EXCEPT ![r] = nextIndex]
                  /\ workerCalls' = [workerCalls EXCEPT ![nextIndex] = @ + 1]
    /\ UNCHANGED <<poolItems, poolLimit, poolState>>
    /\ UNCHANGED <<fnVars, formVars, previewVars, serverVars, requestVars,
                   retentionVars, retryVars>>

\* await Promise.all(runners); return results
PoolResolves ==
    /\ poolState = "running"
    /\ \A r \in DOMAIN runners : runners[r] = -1
    /\ poolState' = "resolved"
    /\ UNCHANGED <<poolItems, poolLimit, nextIndex, runners, poolResults, workerCalls,
                   finished>>
    /\ UNCHANGED <<fnVars, formVars, previewVars, serverVars, requestVars,
                   retentionVars, retryVars>>

NextPool ==
    \/ RunWithConcurrency
    \/ WorkerFinishes
    \/ PoolResolves

SpecPool == Init /\ [][NextPool]_vars

-----------------------------------------------------------------------------
(* withRetry(fn, { maxAttempts }) (server/index.js): each call of fn either  *)
(* returns or throws an error; between two calls withRetry waits on a timer. *)

MaxAttempts == 5
DefaultMaxAttempts == 3

\* the errors fn throws: HTTP statuses, socket error codes, and an error
\* with neither
Errors ==
    {Err(429, ""), Err(499, ""), Err(500, ""), Err(599, ""), Err(600, ""), Err(404, ""),
     Err(0, "ECONNRESET"), Err(0, "ETIMEDOUT"), Err(0, "ENOTFOUND"), Err(0, "")}

\* every error taken as retryable
isRetryableAlways(err) == TRUE

\* status === 429 || (status >= 500 && status < 600) ||
\* code === "ECONNRESET" || code === "ETIMEDOUT"
isRetryable(err) ==
    \/ err.status = 429
    \/ err.status >= 500 /\ err.status < 600
    \/ err.code = "ECONNRESET"
    \/ err.code = "ETIMEDOUT"

\* Math.min(1000 * 2 ** attempt, 10000)
RetryDelay(k) == Min(1000 * 2^k, 10000)

\* withRetry is called: the loop starts with attempt = 1 and calls fn, or,
\* when maxAttempts is below 1, is skipped and throw lastErr is reached
WithRetryCalled ==
    /\ retryState = "idle"
    /\ \E m \in {0, 1, 2, DefaultMaxAttempts} \cup {MaxAttempts} : maxAttempts' = m
    /\ attempt' = 1
    /\ fnCalls' = IF maxAttempts' >= 1 THEN 1 ELSE 0
    /\ retryState' = IF maxAttempts' >= 1 THEN "calling" ELSE "threw"
    /\ UNCHANGED <<lastErr, delays>>
    /\ UNCHANGED <<fnVars, formVars, previewVars, serverVars, requestVars,
                   retentionVars, poolVars>>

\* fn's promise fulfils: return await fn()
FnReturns ==
    /\ retryState = "calling"
    /\ retryState' = "returned"
    /\ UNCHANGED <<maxAttempts, attempt, fnCalls, lastErr, delays>>
    /\ UNCHANGED <<fnVars, formVars, previewVars, serverVars, requestVars,
                   retentionVars, poolVars>>

\* fn throws: the catch block rethrows, or starts the timer of the delay
FnThrows ==
    /\ retryState = "calling"
    /\ \E err \in Errors :
          /\ lastErr' = err
          /\ IF ~isRetryable(err) \/ attempt = maxAttempts
             THEN /\ retryState' = "threw"
                  /\ UNCHANGED delays
             ELSE /\ retryState' = "waiting"
                  /\ delays' = Append(delays, RetryDelay(attempt))
    /\ UNCHANGED <<maxAttempts, attempt, fnCalls>>
    /\ UNCHANGED <<fnVars, formVars, previewVars, serverVars, requestVars,
                   retentionVars, poolVars>>

\* the timer fires: attempt++, and fn is called again while
\* attempt <= maxAttempts
TimerFires ==
    /\ retryState = "waiting"
    /\ attempt' = attempt + 1
    /\ fnCalls' = IF attempt' <= maxAttempts THEN fnCalls + 1 ELSE fnCalls
    /\ retryState' = IF attempt' <= maxAttempts THEN "calling" ELSE "threw"
    /\ UNCHANGED <<maxAttempts, lastErr, delays>>
    /\ UNCHANGED <<fnVars, formVars, previewVars, serverVars, requestVars,
                   retentionVars, poolVars>>

NextRetry ==
    \/ WithRetryCalled
    \/ FnReturns
    \/ FnThrows
    \/ TimerFires

SpecRetry == Init /\ [][NextRetry]_vars

-----------------------------------------------------------------------------
(* Properties of proposalDraft.js, checked under SpecFn *)

NumOrAbsent(v) == v.t \in {"num", "undef"}

\* a draft in the shape of the data model: every numeric field a number of
\* ordinary magnitude or absent, both lists arrays of objects
InDataModelShape(d) ==
    /\ IsObject(d)
    /\ \A k \in {"baseRate", "stdFilterQty", "stdFilterRate", "nonStdFilterQty",
                 "nonStdFilterRate", "fuelSurcharge"} : NumOrAbsent(d[k])
    /\ IsArray(d.additionalItems)
    /\ \A i \in 1..Len(d.additionalItems.a) :
         /\ d.additionalItems.a[i].t = "obj"
         /\ NumOrAbsent(d.additionalItems.a[i].qty)
         /\ NumOrAbsent(d.additionalItems.a[i].rate)
    /\ IsArray(d.repairs)
    /\ \A i \in 1..Len(d.repairs.a) :
         d.repairs.a[i].t = "obj" /\ NumOrAbsent(d.repairs.a[i].amount)

\* the quarter units of a field: its number, or def when it is absent
Quarters(v, def) == IF v.t = "num" THEN v.n ELSE def

RECURSIVE SumOver(_)
SumOver(q) == IF q = <<>> THEN 0 ELSE Head(q) + SumOver(Tail(q))

\* C1: for every draft in the shape of the data model computeTotals returns
\* additionalSubtotal = sum of qty * rate over the additional items,
\* mainServiceSubtotal = baseRate + additionalSubtotal, repairsSubtotal = sum of
\* the repair amounts, filtersSubtotal = stdFilterQty * stdFilterRate +
\* nonStdFilterQty * nonStdFilterRate, fuelSubtotal = fuelSurcharge and
\* totalPerService = the sum of the four subtotals (an absent rate is the
\* default rate, an absent quantity or amount is 0); the scenario draft gives
\* 406 / 1129 / 32 / 46 / 0 / 1207.
TotalsArithmetic ==
    /\ (fnPc = "computeTotals" /\ InDataModelShape(fnArg)) =>
         LET items == fnArg.additionalItems.a
             reps == fnArg.repairs.a
             base == Quarters(fnArg.baseRate, DefaultBaseRate.n)
             add == SumOver([i \in 1..Len(items) |->
                       (Quarters(items[i].qty, 0)
                          * Quarters(items[i].rate, DefaultAdditionalHoodRate.n)) \div 4])
             rep == SumOver([i \in 1..Len(reps) |-> Quarters(reps[i].amount, 0)])
             fil == (Quarters(fnArg.stdFilterQty, 0)
                       * Quarters(fnArg.stdFilterRate, DefaultStdFilterRate.n)) \div 4
                    + (Quarters(fnArg.nonStdFilterQty, 0)
                         * Quarters(fnArg.nonStdFilterRate, DefaultNonStdFilterRate.n)) \div 4
             fuel == Quarters(fnArg.fuelSurcharge, DefaultFuelSurcharge.n)
         IN  /\ ~fnTotals.threw
             /\ fnTotals.baseRate = Num(base)
             /\ fnTotals.addHood = Num(add)
             /\ fnTotals.mainServiceSubtotal = Num(base + add)
             /\ fnTotals.repairsSubtotal = Num(rep)
             /\ fnTotals.filtersSubtotal = Num(fil)
             /\ fnTotals.fuelSubtotal = Num(fuel)
             /\ fnTotals.totalPerService = Num(base + add + rep + fil + fuel)
    /\ (fnPc = "computeTotals" /\ fnArg = ScenarioDraft) =>
         /\ fnTotals.addHood = Whole(406)
         /\ fnTotals.mainServiceSubtotal = Whole(1129)
         /\ fnTotals.filtersSubtotal = Whole(32)
         /\ fnTotals.fuelSubtotal = Whole(46)
         /\ fnTotals.repairsSubtotal = Whole(0)
         /\ fnTotals.totalPerService = Whole(1207)

\* computeTotals has returned for a draft with two priced items and a repair
TotalsArithmeticWitness ==
    /\ fnPc = "computeTotals"
    /\ InDataModelShape(fnArg)
    /\ Len(fnArg.additionalItems.a) = 2
    /\ fnArg.additionalItems.a[1] # fnArg.additionalItems.a[2]
    /\ Len(fnArg.repairs.a) > 0
    /\ fnArg.stdFilterQty = Whole(4)
    /\ ~fnTotals.threw
    /\ fnTotals.totalPerService.n > fnTotals.mainServiceSubtotal.n

\* C3: applyDefaults(applyDefaults(d)) = applyDefaults(d) for every input d
ApplyDefaultsIdempotent ==
    fnPc = "applyDefaults2" => fnDraft2 = fnDraft

NumericFields ==
    {"baseRate", "stdFilterRate", "nonStdFilterRate", "fuelSurcharge",
     "stdFilterQty", "nonStdFilterQty", "initialHoodQty", "initialFanQty"}
RateFields == {"baseRate", "stdFilterRate", "nonStdFilterRate", "fuelSurcharge"}
InitialQtyFields == {"initialHoodQty", "initialFanQty"}

ItemsFinite(d) ==
    /\ IsArray(d.additionalItems)
    /\ \A i \in 1..Len(d.additionalItems.a) :
         d.additionalItems.a[i].qty.t = "num" \/ d.additionalItems.a[i].qty.t = "big"
    /\ \A i \in 1..Len(d.additionalItems.a) :
         d.additionalItems.a[i].rate.t = "num" \/ d.additionalItems.a[i].rate.t = "big"
    /\ IsArray(d.repairs)
    /\ \A i \in 1..Len(d.repairs.a) :
         d.repairs.a[i].amount.t = "num" \/ d.repairs.a[i].amount.t = "big"

\* C4 as stated: every rate or quantity field that arrives as a string, null
\* or undefined is a finite number in the draft applyDefaults returns
NormalizedFieldsFinite ==
    (fnPc = "applyDefaults" /\ IsObject(fnArg)) =>
        /\ \A k \in NumericFields :
             fnArg[k].t \in {"str", "null", "undef"} => IsFinite(fnDraft[k])
        /\ ItemsFinite(fnDraft)

\* C4 as amended: in the draft applyDefaults returns for an object, every
\* item's qty and rate and every repair's amount is a finite number; a rate
\* field that arrived null, undefined or "" holds its default and an initial
\* quantity that arrived null or undefined holds 1; any other string in a rate
\* field is returned as it arrived, and stdFilterQty and nonStdFilterQty are
\* returned as they arrived.
NormalizedItemsFiniteRatesDefaulted ==
    (fnPc = "applyDefaults" /\ IsObject(fnArg)) =>
        /\ ItemsFinite(fnDraft)
        /\ \A k \in RateFields :
             IF IsNullish(fnArg[k]) \/ fnArg[k] = Str("")
             THEN fnDraft[k] = DEFAULT_RATES[k] /\ fnDraft[k].t = "num"
             ELSE fnDraft[k] = fnArg[k]
        /\ \A k \in InitialQtyFields :
             IsNullish(fnArg[k]) => fnDraft[k] = Whole(1)
        /\ \A k \in {"stdFilterQty", "nonStdFilterQty"} : fnDraft[k] = fnArg[k]

\* applyDefaults has returned for a draft with a null rate, a string rate and
\* an undefined quantity / for a draft whose item holds a non-numeric qty
NormalizedWitness ==
    /\ fnPc = "applyDefaults"
    /\ IsObject(fnArg)
    /\ fnArg.baseRate = Null
    /\ fnArg.stdFilterRate = Str("abc")
    /\ fnArg.stdFilterQty = Undef
    /\ fnDraft.baseRate = Whole(723)
    /\ fnDraft.stdFilterRate = Str("abc")

\* C5: no field of computeTotals' result is NaN, for any input object
TotalsNeverNaN ==
    (fnPc = "computeTotals" /\ IsObject(fnArg) /\ ~fnTotals.threw) =>
        \A f \in {"baseRate", "addHood", "addFan", "mainServiceSubtotal",
                  "repairsSubtotal", "filtersSubtotal", "fuelSubtotal",
                  "totalPerService"} : fnTotals[f].t # "nan"

\* the object a draft argument of mergeDraft is read as
PrevObject == IF IsObject(fnArg) THEN fnArg ELSE EmptyDraft

\* C6: mergeDraft(prev, incoming) holds incoming's value under every key
\* incoming defines and prev's value under every other key; with {} it equals
\* prev, with {baseRate: 100} it differs from prev in baseRate alone; the call
\* leaves prev as it was.
MergeFrame ==
    fnPc = "mergeDraft" =>
        /\ \A k \in DraftKeys :
             IF IsObject(fnInc) /\ fnInc[k].t # "undef"
             THEN fnDraft[k] = fnInc[k]
             ELSE fnDraft[k] = PrevObject[k]
        /\ fnInc = EmptyDraft => fnDraft = PrevObject
        /\ fnInc = [EmptyDraft EXCEPT !.baseRate = Whole(100)] =>
             /\ fnDraft.baseRate = Whole(100)
             /\ \A k \in DraftKeys \ {"baseRate"} : fnDraft[k] = PrevObject[k]

MergePreservesUntouched ==
    /\ []MergeFrame
    /\ [][fnPc' = "mergeDraft" => fnArg' = fnArg]_vars

\* mergeDraft has overwritten one key, with null, and kept another
MergeWitness ==
    /\ fnPc = "mergeDraft"
    /\ IsObject(fnArg)
    /\ fnArg.baseRate = Whole(2)
    /\ fnArg.stdFilterRate = Str("abc")
    /\ fnInc.t = "obj"
    /\ fnInc.baseRate = Null
    /\ fnDraft.baseRate = Null
    /\ fnDraft.stdFilterRate = Str("abc")

NonEmptyList(l) == IsArray(l) /\ Len(l.a) >= 1

\* C7: normalizeAdditionalItems and normalizeRepairs return at least one
\* element for every draft (exactly one for {}), and every draft returned by
\* applyDefaults or readDraft, for any input or stored content, has non-empty
\* additionalItems and repairs
ListsNeverEmpty ==
    /\ (fnPc \in {"normalizeAdditionalItems", "normalizeRepairs"} /\ IsObject(fnArg)) =>
          /\ ~fnList.threw
          /\ Len(fnList.a) >= 1
          /\ fnArg = EmptyDraft => Len(fnList.a) = 1
    /\ fnPc \in {"applyDefaults", "readDraft"} =>
          NonEmptyList(fnDraft.additionalItems) /\ NonEmptyList(fnDraft.repairs)

Present(v) == ~IsNullish(v)

\* C8: normalizeAdditionalItems maps a non-empty additionalItems array entry
\* by entry; otherwise, when a legacy hood or fan field is present (not null),
\* it returns the "Additional Hood" entry (if a hood field is present)
\* followed by the "Additional Fan" entry (if a fan field is present), built
\* from those fields; otherwise the single "Additional Hood" placeholder with
\* qty 0.  The legacy scenario draft gives "Additional Hood" with qty 1 and
\* rate 200.  normalizeRepairs maps a non-empty repairs array, otherwise
\* builds one entry from repairDescription / repairRate when either is
\* present, otherwise returns the empty placeholder.
TiersInOrder ==
    /\ (fnPc = "normalizeAdditionalItems" /\ IsObject(fnArg)) =>
         LET d == fnArg
             r == fnList.a
             hoodP == Present(d.additionalHoodQty) \/ Present(d.additionalHoodRate)
             fanP == Present(d.additionalFanQty) \/ Present(d.additionalFanRate)
         IN  /\ ~fnList.threw
             /\ IF IsArray(d.additionalItems) /\ Len(d.additionalItems.a) > 0
                THEN /\ Len(r) = Len(d.additionalItems.a)
                     /\ \A i \in 1..Len(r) :
                          /\ r[i].qty = safeNum(d.additionalItems.a[i].qty)
                          /\ r[i].rate = orDefault(d.additionalItems.a[i].rate,
                                                   DefaultAdditionalHoodRate)
                          /\ r[i].description.t = "str"
                          /\ d.additionalItems.a[i].description.t = "str" =>
                               r[i].description = d.additionalItems.a[i].description
                ELSE IF hoodP \/ fanP
                THEN /\ Len(r) = (IF hoodP THEN 1 ELSE 0) + (IF fanP THEN 1 ELSE 0)
                     /\ hoodP => /\ r[1].description = Str("Additional Hood")
                                 /\ r[1].qty = safeNum(d.additionalHoodQty)
                                 /\ r[1].rate = orDefault(d.additionalHoodRate,
                                                          DefaultAdditionalHoodRate)
                     /\ fanP => /\ r[Len(r)].description = Str("Additional Fan")
                                /\ r[Len(r)].qty = safeNum(d.additionalFanQty)
                                /\ r[Len(r)].rate = orDefault(d.additionalFanRate,
                                                              DefaultAdditionalFanRate)
                ELSE /\ Len(r) = 1
                     /\ r[1].description = Str("Additional Hood")
                     /\ r[1].qty = Whole(0)
                     /\ r[1].rate = DefaultAdditionalHoodRate
             /\ d = LegacyDraft =>
                  /\ r[1] = Item(Str("Additional Hood"), Whole(1), Whole(200), Str(""))
                  /\ r[2].description = Str("Additional Fan") /\ r[2].qty = Whole(0)
    /\ (fnPc = "normalizeRepairs" /\ IsObject(fnArg)) =>
         LET d == fnArg
             r == fnList.a
         IN  /\ ~fnList.threw
             /\ IF IsArray(d.repairs) /\ Len(d.repairs.a) > 0
                THEN /\ Len(r) = Len(d.repairs.a)
                     /\ \A i \in 1..Len(r) : r[i].amount = safeNum(d.repairs.a[i].amount)
                ELSE IF Present(d.repairDescription) \/ Present(d.repairRate)
                THEN /\ Len(r) = 1
                     /\ r[1].amount = safeNum(d.repairRate)
                     /\ r[1].description = ToStr(Coalesce(d.repairDescription, Str("")))
                ELSE r = <<Repair(Str(""), Whole(0))>>

\* normalizeAdditionalItems has rebuilt both entries from the legacy fields of
\* a draft whose additionalItems array is empty
TiersWitness ==
    /\ fnPc = "normalizeAdditionalItems"
    /\ fnArg.t = "obj"
    /\ fnArg.additionalItems = List(<<>>)
    /\ fnArg.additionalHoodQty = Whole(1)
    /\ fnArg.additionalFanRate = Whole(150)
    /\ Len(fnList.a) = 2
    /\ fnList.a[1].description = Str("Additional Hood")
    /\ fnList.a[2].rate = Whole(150)

SixRates ==
    {"baseRate", "additionalHoodRate", "additionalFanRate", "stdFilterRate",
     "nonStdFilterRate", "fuelSurcharge"}

\* what the claimed rule makes of a rate: 0 and "0" are the number 0, a rate
\* that is null, undefined or "" is the default, nothing else is
RateRule(in, out, def) ==
    /\ in \in {Whole(0), Str("0")} => ToNumber(out) = Whole(0)
    /\ Unset(in) => out = def
    /\ (~Unset(in) /\ ToNumber(in) # def) => out # def

\* C20: in the draft applyDefaults returns, each of the six rate fields and
\* each additional item's rate is 0 when it arrived as 0 or "0", is the named
\* default when it arrived null, undefined or "", and is the default in no
\* other case.
RateDefaultingOnlyWhenUnset ==
    (fnPc = "applyDefaults" /\ IsObject(fnArg)) =>
        /\ \A k \in SixRates : RateRule(fnArg[k], fnDraft[k], DEFAULT_RATES[k])
        /\ (IsArray(fnArg.additionalItems) /\ Len(fnArg.additionalItems.a) > 0) =>
              \A i \in 1..Len(fnArg.additionalItems.a) :
                  fnArg.additionalItems.a[i].t = "obj" =>
                      RateRule(fnArg.additionalItems.a[i].rate,
                               fnDraft.additionalItems.a[i].rate,
                               DefaultAdditionalHoodRate)

\* the value JSON.parse(JSON.stringify(v)) of a draft or a primitive
ThroughJson(v) == IF IsObject(v) THEN JsonRoundTrip(v) ELSE JsonValue(v)

\* C13: readDraft after writeDraft(d) returns applyDefaults(d) up to JSON
\* serialization, and readDraft over a slot that is absent, empty, unparseable
\* or holds a value that is not a draft object returns applyDefaults({}).
ReadDraftDefaultsStored ==
    /\ fnPc = "writeRead" => fnDraft = applyDefaults(ThroughJson(fnArg))
    /\ (fnPc = "readDraft" /\ ~(fnInc.kind = "json" /\ IsObject(fnInc.v))) =>
          fnDraft = applyDefaults(EmptyDraft)

\* C21 as stated: no operation of the pricing core raises: every call of
\* normalizeAdditionalItems, normalizeRepairs or computeTotals returns a
\* result, for a null or undefined draft and for lists holding null entries
PricingCoreNeverRaises ==
    /\ fnPc \in {"normalizeAdditionalItems", "normalizeRepairs"} => ~fnList.threw
    /\ fnPc = "computeTotals" => ~fnTotals.threw

\* C24 as stated: for every draft object d, computeTotals(d) equals
\* computeTotals(applyDefaults(d))
TotalsSameAfterDefaults ==
    (fnPc = "computeTotals" /\ IsObject(fnArg)) =>
        fnTotals = computeTotals(applyDefaults(fnArg))

\* a draft object whose additionalItems is not a non-empty array
NoItemsGiven(d) ==
    IsObject(d) /\ ~(IsArray(d.additionalItems) /\ Len(d.additionalItems.a) > 0)

\* the list is "Additional Hood" followed by "Additional Fan"
HoodThenFan(l) ==
    /\ IsArray(l)
    /\ Len(l.a) = 2
    /\ l.a[1].description = Str("Additional Hood")
    /\ l.a[2].description = Str("Additional Fan")

\* C29: applyDefaults of a draft object without a non-empty additionalItems
\* array yields exactly the two items "Additional Hood" and "Additional Fan",
\* in this order, with the quantities of the legacy fields (0 when absent);
\* readDraft of an empty store returns the two items with quantity 0
DefaultsGiveHoodAndFan ==
    /\ (fnPc = "applyDefaults" /\ NoItemsGiven(fnArg)) =>
          /\ HoodThenFan(fnDraft.additionalItems)
          /\ fnDraft.additionalItems.a[1].qty = safeNum(fnArg.additionalHoodQty)
          /\ fnDraft.additionalItems.a[2].qty = safeNum(fnArg.additionalFanQty)
    /\ (fnPc = "readDraft" /\ fnInc.kind # "json") =>
          /\ HoodThenFan(fnDraft.additionalItems)
          /\ fnDraft.additionalItems.a[1].qty = Whole(0)
          /\ fnDraft.additionalItems.a[2].qty = Whole(0)

DefaultsGiveHoodAndFanWitness ==
    /\ fnPc = "applyDefaults"
    /\ fnArg = EmptyDraft
    /\ HoodThenFan(fnDraft.additionalItems)
    /\ fnDraft.additionalItems.a[1].qty = Whole(0)
    /\ fnDraft.additionalItems.a[2].rate = Whole(203)

-----------------------------------------------------------------------------
(* Properties of the inspection form, checked under Spec *)

\* the quantity of the first item whose key is name, Undef when there is none
KeyQty(items, name) ==
    LET i == FindIndex(items, name) IN IF i = 0 THEN Undef ELSE items[i].qty

Derived(count) == MathMax(Add(count, Whole(-1)), Whole(0))

CountOps == {"setHoods", "setFans", "createNew"}

\* the commit in which the equipment effect runs after a change of the hood or
\* fan count made in the form while pricingTouched is true
TouchedCountCommit ==
    /\ pricingTouched
    /\ lastOp \in CountOps
    /\ effPending
    /\ ~effPending'

DerivedQuantityMath ==
    (~pricingTouched /\ Idle) =>
        \A i \in 1..Len(additionalItems) :
            /\ NameKey(additionalItems[i]) = "additional hood"
                  => additionalItems[i].qty = Derived(hoods)
            /\ NameKey(additionalItems[i]) = "additional fan"
                  => additionalItems[i].qty = Derived(fans)

\* hoods = 3 and fans = 2 give 2 and 1
DerivedQuantityWitness ==
    /\ ~pricingTouched
    /\ Idle
    /\ hoods = Whole(3)
    /\ fans = Whole(2)
    /\ KeyQty(additionalItems, "additional hood") = Whole(2)
    /\ KeyQty(additionalItems, "additional fan") = Whole(1)

\* C10 as stated: once pricingTouched is true, no step sets it back to false.
TouchedOneWay == [][pricingTouched => pricingTouched']_vars

\* C10 amended: once pricingTouched is true, the only step that sets it back to
\* false is the loading of a history entry whose snapshot recorded
\* pricingTouched = false; field edits, Create New, generating a report,
\* loading an entry recorded as true and further notifications keep it true.
TouchedResetOnlyByHistory ==
    [][(pricingTouched /\ ~pricingTouched') =>
          /\ lastOp' = "loadHistory"
          /\ \E i \in 1..Len(history) :
                /\ history[i].pricingTouched = Bool(FALSE)
                /\ hoods' = history[i].hoods
                /\ fans' = history[i].fans
                /\ filters' = history[i].filters]_vars

\* a notification from a build that writes the legacy fields has been applied
\* (its additionalHoodQty is still in the slot), and the loading of a history
\* entry has put the flag back to false
TouchedResetWitness ==
    /\ ~pricingTouched
    /\ lastOp = "loadHistory"
    /\ stored.kind = "json"
    /\ stored.v.additionalHoodQty = Whole(2)

\* a step of the form's storage listener
ListenerStep == Idle /\ lastOp' = "onStorage"

FilterOps == {"setFilters", "createNew"}

\* C12: while pricingTouched is false and the effects have settled,
\* stdFilterQty and filterExchangeQty equal the filter count; once
\* pricingTouched is true, a change of the filter count in the form and the
\* effects that follow it leave both unchanged.
FilterQuantitiesDerivedUntilTouched ==
    /\ []((~pricingTouched /\ Idle) =>
            (stdFilterQty = filters /\ filterExchangeQty = filters))
    /\ [][(pricingTouched /\ lastOp' \in FilterOps) =>
            (stdFilterQty' = stdFilterQty /\ filterExchangeQty' = filterExchangeQty)]_vars

\* untouched, the quantities have followed the filter count to 1; touched, the
\* filter count was set to another value in the form and the quantities stayed
FilterFollowedWitness ==
    /\ ~pricingTouched
    /\ Idle
    /\ lastOp = "setFilters"
    /\ filters = Whole(1)
    /\ stdFilterQty = Whole(1)
    /\ filterExchangeQty = Whole(1)

FilterStayedWitness ==
    /\ pricingTouched
    /\ Idle
    /\ lastOp = "setFilters"
    /\ stdFilterQty # filters
    /\ filterExchangeQty # filters

\* C18: no step changes an entry the history already holds: the entry, with
\* the proposalDraft and the flag it was created with, is still in the
\* history after every edit of the form, every notification, every write of
\* the draft and every loading of an entry.
HistorySnapshotsKept ==
    [][\A i \in 1..Len(history) :
          \E j \in 1..Len(history') : history'[j] = history[i]]_vars

\* the form and the stored draft have moved on from the draft the entry holds
HistorySnapshotWitness ==
    /\ Len(history) = 1
    /\ Idle
    /\ pricingTouched
    /\ history[1].pricingTouched = Bool(FALSE)
    /\ history[1].proposalDraft # buildDraftFromState
    /\ stored.kind = "json"
    /\ stored.v.additionalItems # history[1].proposalDraft.additionalItems


-----------------------------------------------------------------------------
(* Properties of the two windows and the store, checked under SpecSync *)

\* steps of the two storage listeners, of the form's effects, of a write made
\* by the form, and of the preview's Save
FormReceiveStep == formSeen' # formSeen
PvReceiveStep == pvSeen' # pvSeen
CommitStep == ~Idle /\ <<effPending', wrPending'>> # <<effPending, wrPending>>
OpenPreviewStep == lastOp' = "openPreview" /\ pvSteps' # pvSteps
PvSaveStep == lastOp' = "pvSave" /\ pvSteps' # pvSteps

\* C14: while the store refuses writes no step changes the slot; the preview's
\* Save still completes and leaves the edited draft as the preview's draft;
\* the form's write effect leaves the draft built from the form's state as it
\* was.
FailedWriteKeepsSlotAndDraft ==
    [][storeFull =>
          /\ stored' = stored
          /\ PvSaveStep => (pvDraft' = pvEditDraft /\ ~pvIsEditing')
          /\ (CommitStep /\ ~effPending) => buildDraftFromState' = buildDraftFromState]_vars

\* the preview has saved an emptied Base Rate while the store refused the
\* write: the preview shows the edit, the slot holds the rate it held before
FailedSaveWitness ==
    /\ storeFull
    /\ lastOp = "pvSave"
    /\ ~pvIsEditing
    /\ pvDraft.baseRate = Str("")
    /\ stored.kind = "json"
    /\ stored.v.baseRate # Str("")

\* the payload of a storage event as the listeners read it
Payload(inbox) == IF Head(inbox).kind = "json" THEN Head(inbox).v ELSE EmptyDraft

\* a form field after the listener handled a saved draft: the saved value,
\* the field's own value when the saved draft does not have the key
SavedOr(saved, key, own) == IF saved[key].t # "undef" THEN saved[key] ELSE own

\* C15: under fair scheduling of the two windows every storage event
\* dispatched to a window is handled by its listener; when the preview
\* handles an event its draft becomes applyDefaults of the written draft; when
\* the form handles the event of a preview Save its fields hold the values
\* the saved draft has (frequency, base rate, filter quantities, the
\* normalised items and the counts that follow from them, the repairs).
ChangesPropagate ==
    /\ \A b \in {0, 1} : (pvInbox # <<>> /\ pvSeen = b) ~> (pvSeen # b)
    /\ \A b \in {0, 1} : (formInbox # <<>> /\ formSeen = b) ~> (formSeen # b)
    /\ [][PvReceiveStep => pvDraft' = applyDefaults(Payload(pvInbox))]_vars
    /\ [][FormReceiveStep =>
            LET saved == Payload(formInbox)
                items == normalizeAdditionalItems(saved)
            IN  /\ cleaningFrequency' = SavedOr(saved, "cleaningFrequency", cleaningFrequency)
                /\ baseRate' = SavedOr(saved, "baseRate", baseRate)
                /\ stdFilterQty' = SavedOr(saved, "stdFilterQty", stdFilterQty)
                /\ filterExchangeQty' = SavedOr(saved, "filterExchangeQty", filterExchangeQty)
                /\ additionalItems' = items
                /\ hoods' = Add(Whole(1), FoundQty(items, "additional hood"))
                /\ fans' = Add(Whole(1), FoundQty(items, "additional fan"))
                /\ repairs' = saved.repairs.a]_vars

\* both directions have happened: the form has handled the event of a Save
\* that selected a fuel frequency, and the preview has since handled the event
\* of the form's next write, while the user was editing again
PropagatedWitness ==
    /\ pvOpen
    /\ lastOp = "pvReceive"
    /\ pvInbox = <<>>
    /\ formInbox = <<>>
    /\ pricingTouched
    /\ pvIsEditing
    /\ pvDraft = applyDefaults(stored.v)
    /\ pvDraft.fuelFrequency = Str("Monthly")

\* C16: a listener adopts only fields of applyDefaults(payload): the
\* preview's draft is applyDefaults of the payload, and the base rate, items
\* and repairs the form takes from a payload are those of
\* applyDefaults(payload).
ReceiversApplyDefaults ==
    [][/\ PvReceiveStep => pvDraft' = applyDefaults(Payload(pvInbox))
       /\ FormReceiveStep =>
            LET inc == applyDefaults(Payload(formInbox))
            IN  /\ baseRate' = inc.baseRate
                /\ additionalItems' = inc.additionalItems.a
                /\ repairs' = inc.repairs.a]_vars

\* the keys of the stored draft that the form never supplies
PreviewOnlyKeys == {"fuelFrequency"}

\* C17: a write made by the form (its write effect, opening the preview)
\* leaves the keys the form does not supply as they were in the slot.
FormWritesKeepPreviewKeys ==
    [][((CommitStep \/ OpenPreviewStep) /\ stored.kind = "json") =>
          \A k \in PreviewOnlyKeys :
              stored'.kind = "json" /\ stored'.v[k] = stored.v[k]]_vars

\* a step of saveEdit: it ends the editing
SaveEditStep == pvIsEditing /\ ~pvIsEditing' /\ lastOp' = "pvSave"

\* C25: the preview's Save replaces the stored draft without a merge.  The
\* edit copy is the draft shown when editing began; while the user edits, only
\* the user's input changes it; a Save that the store accepts leaves exactly
\* the JSON of the edit copy in the slot, so the slot then holds the edit
\* copy's filter count and quantities whatever the form wrote meanwhile; and
\* the form, handling the event of the Save, takes its filter count and
\* quantities from the saved draft.
PreviewSaveReplaces ==
    [][/\ (~pvIsEditing /\ pvIsEditing') => pvEditDraft' = active
       /\ (pvIsEditing /\ pvIsEditing' /\ pvEditDraft' # pvEditDraft) =>
             \E kv \in PvInputs : pvEditDraft' = [pvEditDraft EXCEPT ![kv[1]] = kv[2]]
       /\ (SaveEditStep /\ ~storeFull) =>
             /\ stored' = Json(JsonRoundTrip(pvEditDraft))
             /\ \A k \in {"filters", "stdFilterQty", "filterExchangeQty"} :
                   stored'.v[k] = pvEditDraft[k]
       /\ FormReceiveStep =>
             LET saved == Payload(formInbox)
             IN  /\ saved.filters.t # "undef" =>
                       filters' = OrElse(ToNumber(saved.filters), Whole(0))
                 /\ stdFilterQty' = SavedOr(saved, "stdFilterQty", stdFilterQty)
                 /\ filterExchangeQty' =
                       SavedOr(saved, "filterExchangeQty", filterExchangeQty)]_vars

\* the form's write of one filter reached the store while the user was
\* editing in the preview (its event is still waiting there); the Save has
\* since put the edit copy, with no filter, in the slot
SaveDroppedFormWriteWitness ==
    /\ lastOp = "pvSave"
    /\ Idle
    /\ filters = Whole(1)
    /\ pvInbox # <<>>
    /\ Payload(pvInbox).filters = Whole(1)
    /\ formInbox # <<>>
    /\ Head(formInbox) = stored
    /\ stored = Json(JsonRoundTrip(pvDraft))
    /\ stored.v.filters = Whole(0)

\* the form has handled the event of that Save: its filter count and
\* quantities are back at the preview's values
FormRevertedWitness ==
    /\ lastOp = "onStorage"
    /\ formInbox = <<>>
    /\ stored.kind = "json"
    /\ pvOpen
    /\ ~pvIsEditing
    /\ pvInbox # <<>>
    /\ Payload(pvInbox).filters = Whole(1)
    /\ filters = Whole(0)
    /\ stdFilterQty = pvDraft.stdFilterQty

\* C30 as stated: in the preview the amounts of the rows shown add up to the
\* total displayed, totalPerService of computeTotals, for every draft the
\* preview holds
PreviewRowsAddUp ==
    pvOpen => RowsTotal(active) = computeTotals(active).totalPerService

-----------------------------------------------------------------------------
(* Properties of the history across reloads, checked under SpecHistory *)

\* the loading of the history entry i
LoadStepOf(i) ==
    /\ Idle
    /\ lastOp' = "loadHistory"
    /\ serverUp' = serverUp
    /\ hoods' = Coalesce(history[i].hoods, Whole(0))

\* C19: loading an entry created by a generation sets pricingTouched to the
\* value recorded at that generation and the pricing fields (frequency, base
\* rate, filter quantities, items, repairs) from the draft recorded at that
\* generation, also after a reload and the merge with the server's list.
LoadRestoresGeneration ==
    [][\A i \in 1..Len(history) :
          LoadStepOf(i) =>
             LET g == genLog[history[i].id]
                 draft == g.proposalDraft
             IN  /\ pricingTouched' = g.pricingTouched
                 /\ cleaningFrequency' = draft.cleaningFrequency
                 /\ baseRate' = ToStr(draft.baseRate)
                 /\ stdFilterQty' = draft.stdFilterQty
                 /\ filterExchangeQty' = draft.filterExchangeQty
                 /\ additionalItems' = draft.additionalItems.a
                 /\ repairs' = draft.repairs.a]_vars

\* C26 as stated: the write the form makes when it mounts, before any edit,
\* leaves every field the stored draft has (rates, frequencies, line items,
\* filter quantities) with the value it had in the slot
MountKeepsStoredDraft ==
    [][(lastOp = "mount" /\ CommitStep /\ stored.kind = "json") =>
          /\ stored'.kind = "json"
          /\ \A k \in DraftKeys :
                stored.v[k].t # "undef" => stored'.v[k] = stored.v[k]]_vars

-----------------------------------------------------------------------------
(* Properties of the Generate button, checked under SpecGen *)

\* C23: a request is sent only when the restaurant name is non-blank and the
\* notes are non-blank or a photo is attached, and only when no request is
\* awaiting its response and isGenerating is false; at most one request is in
\* flight at any time; isGenerating is false after every response, ok or not.
GenerationGated ==
    /\ [](Len(requests) <= 1)
    /\ [][Len(requests') > Len(requests) =>
            /\ Trim(restaurantName) # ""
            /\ Trim(notes) # "" \/ photos > 0
            /\ requests = <<>>
            /\ ~isGenerating]_vars
    /\ [][Len(requests') < Len(requests) => ~isGenerating']_vars

\* after a first report was generated a second request is in flight, enabled
\* by a photo alone (the notes are blank)
GenerationWitness ==
    /\ Len(requests) = 1
    /\ isGenerating
    /\ Len(genLog) = 1
    /\ Len(history) = 1
    /\ Trim(notes) = ""
    /\ photos = 1
    /\ apiError = ""

-----------------------------------------------------------------------------
(* Properties of the report retention, checked under SpecRetention *)

\* C22 as stated: once the startup cleanup has completed, no report older
\* than 30 days remains in the store, however many there were before
ExpiredReportsGone == cleanup = "done" => expired = 0

-----------------------------------------------------------------------------
(* Properties of runWithConcurrency, checked under SpecPool *)

\* the worker calls in flight
InFlight == {r \in DOMAIN runners : runners[r] >= 0}

\* C27: for every list and every limit >= 1, the worker is never invoked
\* twice for an index and never more than min(limit, items.length) calls are
\* in flight; a result that is stored is the value returned for its own
\* index and file; the call resolves only when no worker call is in flight,
\* and then the worker has been invoked exactly once for every index and
\* results[i] is the value of worker(items[i], i), whatever the order in
\* which the calls finished.
PoolKeepsInputOrder ==
    poolState # "idle" =>
        /\ Cardinality(InFlight) <= Min(poolLimit, Len(poolItems))
        /\ \A i \in DOMAIN workerCalls : workerCalls[i] <= 1
        /\ \A i \in DOMAIN poolResults :
              poolResults[i] # Empty =>
                  /\ poolResults[i].index = i
                  /\ poolResults[i].filename = poolItems[i + 1]
        /\ poolState = "resolved" =>
              /\ InFlight = {}
              /\ DOMAIN poolResults = 0..(Len(poolItems) - 1)
              /\ Len(finished) = Len(poolItems)
              /\ \A i \in DOMAIN poolResults :
                    workerCalls[i] = 1 /\ poolResults[i] # Empty

\* four files with a limit of two have been processed; the calls finished in
\* the order 1, 0, 3, 2
PoolWitness ==
    /\ poolState = "resolved"
    /\ Len(poolItems) = 4
    /\ poolLimit = 2
    /\ finished = <<1, 0, 3, 2>>
    /\ poolResults[0].filename = "1.jpg"
    /\ poolResults[3].filename = "4.jpg"

-----------------------------------------------------------------------------
(* Properties of withRetry, checked under SpecRetry *)

\* the errors after which a retry is made: status 429, status 500-599, code
\* ECONNRESET or ETIMEDOUT
Transient(err) ==
    \/ err.status = 429
    \/ err.status \in 500..599
    \/ err.code \in {"ECONNRESET", "ETIMEDOUT"}

\* C28: fn is called at most maxAttempts times (3 by default); once a call
\* has succeeded its result is returned and fn is not called again; fn is
\* called again only after an error with status 429, status 500-599 or code
\* ECONNRESET / ETIMEDOUT; an error that is not of these, or the error of
\* attempt maxAttempts, is rethrown without another call and without a wait;
\* the wait before retry k is min(1000 * 2^k, 10000) ms.
RetryBounded ==
    /\ [](retryState # "idle" => fnCalls <= maxAttempts)
    /\ [](\A k \in 1..Len(delays) :
             delays[k] = (IF 1000 * 2^k < 10000 THEN 1000 * 2^k ELSE 10000))
    /\ [][(retryState = "returned" \/ retryState = "threw") =>
             (fnCalls' = fnCalls /\ retryState' = retryState)]_vars
    /\ [][(retryState = "calling" /\ retryState' = "returned") =>
             fnCalls' = fnCalls]_vars
    /\ [][(fnCalls' > fnCalls /\ fnCalls > 0) =>
             (retryState = "waiting" /\ Transient(lastErr) /\ fnCalls' = fnCalls + 1)]_vars
    /\ [][(retryState = "calling" /\ retryState' # "returned" /\ ~Transient(lastErr')) =>
             (retryState' = "threw" /\ delays' = delays)]_vars
    /\ [][(retryState = "calling" /\ retryState' # "returned" /\ attempt = maxAttempts) =>
             (retryState' = "threw" /\ delays' = delays)]_vars

\* with the default of three attempts, two calls failed with retryable errors
\* and the third returned, after waits of 2 s and 4 s
RetryWitness ==
    /\ retryState = "returned"
    /\ maxAttempts = DefaultMaxAttempts
    /\ fnCalls = 3
    /\ delays = <<2000, 4000>>
    /\ lastErr = Err(0, "ETIMEDOUT")

\* the fifth attempt is running after a wait held at the ceiling of 10 s
RetryCeilingWitness ==
    /\ retryState = "calling"
    /\ attempt = 5
    /\ delays = <<2000, 4000, 8000, 10000>>

====
